---------------------------- MODULE Spec2Model ----------------------------
(***************************************************************************)
(* State-machine model of the Nexia thermostat client                      *)
(* (custom_components/nexia/nexia_thermostat.py, climate.py, __init__.py). *)
(*                                                                         *)
(* The client is a blocking, multi-caller object.  Every caller (thread)   *)
(* runs one public operation at a time; an operation blocks on the network *)
(* (one request in flight per caller) or on the client's mutex.  A step of *)
(* the model is: a caller starts an operation and runs it up to its first  *)
(* blocking point, or the server answers the request a caller has in       *)
(* flight and the caller runs on to its next blocking point or to the end  *)
(* of the operation.                                                       *)
(***************************************************************************)
EXTENDS Integers, Sequences, FiniteSets, TLC

(***************************************************************************)
(* Program constants                                                       *)
(***************************************************************************)
\* nexia_thermostat.py:12  GLOBAL_LOGIN_ATTEMPTS = 4
GLOBAL_LOGIN_ATTEMPTS == 4
\* nexia_thermostat.py:38  DEFAULT_UPDATE_RATE = 120
DEFAULT_UPDATE_RATE == 120
\* nexia_thermostat.py:39  DISABLE_AUTO_UPDATE = "Disable"; an update_rate is
\* either a number of seconds or this sentinel, modelled as -1
DISABLE_AUTO_UPDATE == -1
\* self.last_update = None (nexia_thermostat.py:119), modelled as -1
NoTime == -1

None == "None"

\* request paths
SIGN_IN == "/accounts/sign_in"
SESSION == "/session"
HOUSES == "/houses/house_id"
\* the frame of a login() call waiting for the request it made
LOGIN == "login()"

\* errors an operation can end with
ERR_EXHAUSTED == "Failed to login after 4 attempts"
ERR_LOGIN == "Failed to login"
ERR_TRANSPORT == "Failed to GET/POST url"
ERR_NO_RESPONSE == "No response from session"
ERR_EMPTY_JSON == "Nothing in the JSON"

(***************************************************************************)
(* Bounds of the model                                                     *)
(***************************************************************************)
\* callers that use the client concurrently
NThreads == 2
\* requests one operation may send before the server stops answering 302
MaxSent == 5
\* sign-in requests over the client's lifetime before the model stops
MaxSignins == 5
\* the same two bounds where the cache is checked
MaxCacheSent == 2
MaxCacheSignins == 1
\* the same for the lookups through the cache, whose client has signed in
\* once before the first lookup
MaxLookupSignins == 2
\* the clock stops here
MaxTime == 121
\* the same two bounds where the control operations are checked
MaxControlSent == 3
MaxControlSignins == 2
\* control operations called before the model stops
MaxCalls == 1

Threads == 1..NThreads
\* a with-statement that takes nothing: the mutex is never seen held
NoHolder(t) == None
\* callers are named by strings where they are stored next to None
Holder(t) == IF t = 1 THEN "caller1" ELSE IF t = 2 THEN "caller2" ELSE "caller3"

VARIABLES
    GLOBAL_LOGIN_ATTEMPTS_LEFT, \* module-level counter shared by all clients
    mobile_id, api_key,         \* token pair, None until a login succeeded
    house_id,                   \* None until given or discovered
    update_rate,                \* seconds, or DISABLE_AUTO_UPDATE
    thermostat_json,            \* the snapshot: [none |-> TRUE] until fetched
    last_update,                \* time of the last successful fetch, or NoTime
    mutex,                      \* the Lock: its holder, or None
    now,                        \* the clock, in seconds
    pc,                         \* per caller: "idle", "lock" (waiting for the
                                \* mutex), "net" (request in flight)
    op,                         \* per caller: the public operation it runs
    stack,                      \* per caller: pending transport frames, top =
                                \* the request in flight
    sent,                       \* per caller: requests sent by the operation
    rcvd,                       \* per caller: statuses received by the operation
    result,                     \* how the operation that ended last ended
    signins,                    \* sign-in requests sent since construction
    calls,                      \* control operations called since construction
    server                      \* the devices as the server holds them, and,
                                \* per caller, what it has read for the answer
                                \* to that caller's GET in flight

vars == <<GLOBAL_LOGIN_ATTEMPTS_LEFT, mobile_id, api_key, house_id,
          update_rate, thermostat_json, last_update, mutex, now,
          pc, op, stack, sent, rcvd, result, signins, calls, server>>

Top(s) == s[Len(s)]
Pop(s) == SubSeq(s, 1, Len(s) - 1)
Count(s, x) == Cardinality({i \in 1..Len(s) : s[i] = x})

(***************************************************************************)
(* Server responses.  status is the HTTP status; body says what the        *)
(* decoded response holds: "ok" a well-formed answer, "empty" an empty     *)
(* JSON document, "fail" a sign-in answer whose success is not true,       *)
(* "forgotten" a sign-in answer whose final url is the forgotten-          *)
(* credentials page.                                                       *)
(***************************************************************************)
Statuses == {200, 204, 302, 500}

Bodies(url) ==
    IF url = SIGN_IN THEN {"ok", "fail", "forgotten"}
    ELSE IF url \in {SESSION, HOUSES} THEN {"ok", "empty"}
    ELSE {"ok"}

NoPayload == [none |-> TRUE]

Responses(url, results) ==
    {[status |-> s, body |-> "ok", result |-> NoPayload] :
        s \in Statuses \ {200}}
      \cup {[status |-> 200, body |-> b, result |-> NoPayload] :
               b \in Bodies(url) \ {"ok"}}
      \cup {[status |-> 200, body |-> "ok", result |-> r] : r \in results}

NoResponse == [status |-> 0, body |-> None, result |-> NoPayload]


(***************************************************************************)
(* Session transport.  The code between two blocking points is run on a    *)
(* context record c: the caller's frames and request log, the shared       *)
(* session state, and how the call stands (status "running": a request is  *)
(* in flight; "returned": control is back in the operation with            *)
(* c.response; "raised": an exception left the operation).  No transport   *)
(* or login error is caught anywhere in the client, so an exception always *)
(* unwinds every frame.                                                    *)
(***************************************************************************)
Ctx(t) ==
    [stack |-> stack[t], sent |-> sent[t],
     left |-> GLOBAL_LOGIN_ATTEMPTS_LEFT,
     mobile_id |-> mobile_id, api_key |-> api_key, house_id |-> house_id,
     json |-> thermostat_json, last_update |-> last_update, mutex |-> mutex,
     op |-> op[t], value |-> None, server |-> server,
     status |-> "running", error |-> None, response |-> NoResponse]

\* self.session.post(...) / self.session.get(...): the request goes out and
\* the caller blocks on it
Request(c, url) ==
    [c EXCEPT !.stack = Append(@, url), !.sent = Append(@, url)]

Raise(c, err) ==
    [c EXCEPT !.stack = <<>>, !.status = "raised", !.error = err]

\* _check_response: passes for status 200 only
check_response(resp) == resp.status = 200

\* login(): the guard on the process-wide counter
LoginAllowedAtZero(left) == left >= 0
LoginAllowed(left) == left > 0

\* login() up to its sign-in request
login(c) ==
    IF LoginAllowed(c.left)
    THEN Request([c EXCEPT !.stack = Append(@, LOGIN)], SIGN_IN)
    ELSE Raise(c, ERR_EXHAUSTED)

\* login() returns to its caller (its frame already popped): the public
\* caller, or a _post_url/_get_url that saw 302 and now sends its request again
login_return(c) ==
    IF c.stack = <<>>
    THEN [c EXCEPT !.status = "returned"]
    ELSE [c EXCEPT !.sent = Append(@, Top(c.stack))]

\* login() with the answer of its _post_url("/accounts/sign_in", payload)
login_resume(c, resp) ==
    LET c1 == [c EXCEPT !.left =
                  IF resp = NoResponse
                     \/ (resp.status # 200 /\ resp.status # 302)
                  THEN @ - 1 ELSE @]
    IN  IF resp = NoResponse THEN Raise(c1, ERR_NO_RESPONSE)
        ELSE IF ~check_response(resp) THEN Raise(c1, ERR_LOGIN)
        ELSE IF resp.body = "forgotten" THEN Raise(c1, ERR_LOGIN)
        ELSE IF resp.body # "ok" THEN Raise(c1, ERR_LOGIN)
        ELSE LET c2 == [c1 EXCEPT !.mobile_id = "mobile_id",
                                  !.api_key = "api_key"]
             IN  IF c2.house_id = None
                 THEN Request(c2, SESSION)
                 ELSE login_return([c2 EXCEPT !.stack = Pop(@)])

\* _find_house_id() with the answer of its _post_url("/session", {})
find_house_id_resume(c, resp) ==
    IF resp.status = 200
    THEN IF resp.body = "ok"
         THEN login_return([c EXCEPT !.house_id = "house_id",
                                     !.stack = Pop(@)])
         ELSE Raise(c, ERR_EMPTY_JSON)
    ELSE Raise(c, ERR_TRANSPORT)

\* _post_url/_get_url returns resp to its caller (its frame already popped)
url_return(c, url, resp) ==
    IF c.stack = <<>>
    THEN [c EXCEPT !.status = "returned", !.response = resp]
    ELSE IF url = SIGN_IN THEN login_resume(c, resp)
    ELSE find_house_id_resume(c, resp)

\* _post_url/_get_url with the answer to the request it has in flight
url_response(c, resp) ==
    IF resp.status = 302
    THEN login(c)
    ELSE IF ~check_response(resp) THEN Raise(c, ERR_TRANSPORT)
    ELSE url_return([c EXCEPT !.stack = Pop(@)], Top(c.stack), resp)

\* login() of a client constructed with offline_json: _post_url returns None
\* without sending anything
offline_login(c) ==
    IF LoginAllowed(c.left)
    THEN login_resume([c EXCEPT !.stack = <<LOGIN>>], NoResponse)
    ELSE Raise(c, ERR_EXHAUSTED)


(***************************************************************************)
(* The snapshot.  A Device is a record (a JSON object) with an id, a       *)
(* settings list (entries keyed by "type"), a features list (entries keyed *)
(* by "name") and a zones list; a Zone has the same shape plus its         *)
(* setpoints.  Temperatures are in quarter degrees, so that rounding to a  *)
(* whole or to half a degree is not the identity; humidity is in percent.  *)
(***************************************************************************)
ALL_IDS == "all"
HOLD_PERMANENT == "permanent_hold"
HOLD_RESUME_SCHEDULE == "run_schedule"
FAN_MODES == {"auto", "on", "circulate"}
OPERATION_MODES == {"AUTO", "COOL", "HEAT", "OFF"}
AIR_CLEANER_MODES == {"auto", "quick", "allergy"}

\* quarter degrees in a degree
Deg(n) == 4 * n

\* the options of preset_selected; a label may stand in two of them
PresetOptions ==
    <<[label |-> "None", value |-> 0], [label |-> "Home", value |-> 1],
      [label |-> "Away", value |-> 2], [label |-> "Away", value |-> 3]>>
PresetLabels == <<"None", "Home", "Away">>

Zone(zid, heat, cool, run_mode, zone_mode, preset) ==
    [id |-> zid,
     setpoints |-> [heat |-> heat, cool |-> cool],
     settings |-> <<[type |-> "run_mode", current_value |-> run_mode],
                    [type |-> "zone_mode", current_value |-> zone_mode],
                    [type |-> "preset_selected", current_value |-> preset,
                     labels |-> PresetLabels, options |-> PresetOptions]>>,
     features |-> <<[name |-> "thermostat_mode", value |-> zone_mode]>>]

ThermostatFeature ==
    [name |-> "thermostat", setpoint_delta |-> Deg(3),
     setpoint_heat_min |-> Deg(55), setpoint_cool_max |-> Deg(99),
     scale |-> "f"]

Device(tid, status, zones) ==
    [id |-> tid,
     system_status |-> status,
     emergency_heat_supported |-> TRUE,
     indoor_humidity |-> "45",
     settings |-> <<[type |-> "fan_mode", current_value |-> "auto"],
                    [type |-> "air_cleaner_mode", current_value |-> "auto"],
                    [type |-> "humidify", current_value |-> 40],
                    [type |-> "dehumidify", current_value |-> 50],
                    [type |-> "emergency_heat_active",
                     current_value |-> FALSE]>>,
     features |-> <<ThermostatFeature>>,
     zones |-> zones]

\* the device dev as an account reports it when it lacks the capabilities
\* whose settings entries are named in types
without_settings(dev, types) ==
    LET kept(e) == e.type \notin types
    IN  [dev EXCEPT !.settings = SelectSeq(@, kept)]

DefaultZone(zid) ==
    Zone(zid, Deg(68), Deg(72), HOLD_RESUME_SCHEDULE, "AUTO", 1)

\* what GET /houses/{house_id} may return as the account's devices
ServerItems ==
    {<<Device("T1", "System Idle", <<DefaultZone("Z1")>>)>>,
     <<Device("T1", "Cooling", <<DefaultZone("Z1")>>)>>}

(***************************************************************************)
(* Device state cache: _get_thermostat_json(thermostat_id, force_update).  *)
(* The operation record holds its arguments id and force.                  *)
(***************************************************************************)
Return(c, v) == [c EXCEPT !.status = "returned", !.value = v]

ERR_KEY == "KeyError"
ERR_INDEX == "IndexError"

\* _needs_update() with >= for >, and without the DISABLE_AUTO_UPDATE case
needs_update_at_rate(last) ==
    IF update_rate = DISABLE_AUTO_UPDATE THEN FALSE
    ELSE IF last = NoTime THEN TRUE
    ELSE now - last >= update_rate

needs_update_always_timed(last) ==
    IF last = NoTime THEN TRUE ELSE now - last > update_rate

\* _needs_update()
needs_update(last) ==
    IF update_rate = DISABLE_AUTO_UPDATE THEN FALSE
    ELSE IF last = NoTime THEN TRUE
    ELSE now - last > update_rate

\* the condition of lines 286 and 290-294
must_fetch(c) == c.json.none \/ needs_update(c.last_update) \/ c.op.force

\* the condition as evaluated again under the mutex (and the with-statement
\* without the second check)
no_second_check(c) == TRUE
must_fetch_locked(c) == must_fetch(c)

\* a selection that takes the first device where the id is omitted
select_first_when_omitted(c) ==
    IF c.op.id = None /\ c.json.items # <<>>
    THEN Return(c, c.json.items[1])
    ELSE IF c.op.id = ALL_IDS THEN Return(c, c.json.items)
    ELSE Raise(c, ERR_KEY)

\* lines 313-330: pick the device(s) the caller asked for; the KeyError's
\* message lists the ids of the snapshot, kept here as the value
select_thermostat(c) ==
    LET items == c.json.items
        id == c.op.id
        hits == {i \in 1..Len(items) : items[i].id = id}
    IN  IF id = ALL_IDS THEN Return(c, items)
        ELSE IF id # None
        THEN IF hits # {}
             THEN Return(c, items[CHOOSE i \in hits : \A j \in hits : i <= j])
             ELSE [Raise(c, ERR_KEY) EXCEPT
                     !.value = [i \in DOMAIN items |-> items[i].id]]
        ELSE IF Len(items) = 1 THEN Return(c, items[1])
        ELSE Raise(c, ERR_INDEX)

\* _get_thermostat_json without its test of mobile_id
get_thermostat_json_unchecked(c) ==
    IF must_fetch(c) THEN [c EXCEPT !.status = "blocked"]
    ELSE select_thermostat(c)

\* lines 282-286: up to the with-statement
get_thermostat_json(c) ==
    IF c.mobile_id = None THEN Return(c, None)
    ELSE IF must_fetch(c) THEN [c EXCEPT !.status = "blocked"]
    ELSE select_thermostat(c)

\* lines 287-295: the mutex is taken and the condition checked again
locked_get_thermostat_json(c, t) ==
    LET c1 == [c EXCEPT !.mutex = Holder(t)]
    IN  IF must_fetch_locked(c1)
        THEN Request(c1, HOUSES)
        ELSE select_thermostat([c1 EXCEPT !.mutex = None])

\* a fetch that stamps last_update whether it got a snapshot or not
fetch_resume_stamping(c) ==
    LET c1 == [c EXCEPT !.mutex = None, !.last_update = now]
    IN  IF c.status = "raised" THEN c1
        ELSE IF c.response.status = 200 /\ c.response.body = "ok"
        THEN select_thermostat(
                [c1 EXCEPT !.json = [none |-> FALSE,
                                     items |-> c.response.result.items]])
        ELSE Raise(c1, IF c.response.status = 200 THEN ERR_EMPTY_JSON
                       ELSE ERR_TRANSPORT)

\* a fetch that leaves the with-statement without releasing the mutex when
\* the transport raised
fetch_resume_holding(c) ==
    IF c.status = "raised" THEN c
    ELSE IF c.response.status = 200 /\ c.response.body = "ok"
    THEN select_thermostat(
            [c EXCEPT !.mutex = None,
                      !.json = [none |-> FALSE,
                                items |-> c.response.result.items],
                      !.last_update = now])
    ELSE Raise([c EXCEPT !.mutex = None],
               IF c.response.status = 200 THEN ERR_EMPTY_JSON
               ELSE ERR_TRANSPORT)

\* lines 296-310, and leaving the with-statement: the transport returned
\* the response of GET /houses/{house_id}, or raised
fetch_resume(c) ==
    LET c1 == [c EXCEPT !.mutex = None]
    IN  IF c.status = "raised" THEN c1
        ELSE IF c.response.status = 200
        THEN IF c.response.body = "ok"
             THEN select_thermostat(
                     [c1 EXCEPT !.json = [none |-> FALSE,
                                          items |-> c.response.result.items],
                                !.last_update = now])
             ELSE Raise(c1, ERR_EMPTY_JSON)
        ELSE Raise(c1, ERR_TRANSPORT)

\* datetime.datetime.min, earlier than every time of the clock
DATETIME_MIN == -2
\* datetime.datetime.isoformat(t): the time as text
isoformat(t) == <<"isoformat", t>>

\* get_last_update()
get_last_update ==
    IF last_update = NoTime THEN isoformat(DATETIME_MIN)
    ELSE isoformat(last_update)

(***************************************************************************)
(* Reading the snapshot.  Lookups are by id, by settings "type" and by     *)
(* features "name"; the thermostat the caller names is chosen as           *)
(* _get_thermostat_json chooses it.                                        *)
(***************************************************************************)
\* what a lookup that finds nothing evaluates to (Python's None)
NoEntry == [none |-> TRUE]

\* the position of the first entry of list whose key equals value, or 0
index_with_keyvalue(list, key, value) ==
    LET hits == {i \in 1..Len(list) : list[i][key] = value}
    IN  IF hits = {} THEN 0 ELSE CHOOSE i \in hits : \A j \in hits : i <= j

\* a search that takes the first entry for the one it was asked for
first_entry(list, key, value) == list[1]

\* find_dict_with_keyvalue_in_json
find_dict_with_keyvalue_in_json(list, key, value) ==
    LET i == index_with_keyvalue(list, key, value)
    IN  IF i = 0 THEN NoEntry ELSE list[i]

\* the position in items of the device _get_thermostat_json(id) returns on a
\* populated snapshot, or 0 where it raises
thermostat_index(items, id) ==
    IF id # None THEN index_with_keyvalue(items, "id", id)
    ELSE IF Len(items) = 1 THEN 1 ELSE 0

\* the error _get_thermostat_json(id) raises where it raises
thermostat_error(id) == IF id # None THEN ERR_KEY ELSE ERR_INDEX

\* str.lower() and str.upper() on the strings the callers pass
Lower(s) ==
    CASE s = "AUTO" -> "auto" [] s = "ON" -> "on" [] s = "Quick" -> "quick"
      [] OTHER -> s

Upper(s) ==
    CASE s = "auto" -> "AUTO" [] s = "cool" -> "COOL" [] s = "heat" -> "HEAT"
      [] s = "off" -> "OFF" [] s = "dry" -> "DRY"
      [] OTHER -> s

\* the getters, on the device record dev and the zone record zone
get_fan_mode(dev) ==
    find_dict_with_keyvalue_in_json(dev.settings, "type", "fan_mode")
        .current_value
get_air_cleaner_mode(dev) ==
    find_dict_with_keyvalue_in_json(dev.settings, "type", "air_cleaner_mode")
        .current_value
get_dehumidify_setpoint(dev) ==
    find_dict_with_keyvalue_in_json(dev.settings, "type", "dehumidify")
        .current_value
get_humidify_setpoint(dev) ==
    find_dict_with_keyvalue_in_json(dev.settings, "type", "humidify")
        .current_value
has_emergency_heat(dev) ==
    "emergency_heat_supported" \in DOMAIN dev /\ dev.emergency_heat_supported
has_relative_humidity(dev) ==
    "indoor_humidity" \in DOMAIN dev /\ dev.indoor_humidity # ""
has_dehumidify_support(dev) ==
    index_with_keyvalue(dev.settings, "type", "dehumidify") # 0
has_humidify_support(dev) ==
    index_with_keyvalue(dev.settings, "type", "humidify") # 0
get_deadband(dev) ==
    find_dict_with_keyvalue_in_json(dev.features, "name", "thermostat")
        .setpoint_delta
get_setpoint_heat_min(dev) ==
    find_dict_with_keyvalue_in_json(dev.features, "name", "thermostat")
        .setpoint_heat_min
get_setpoint_cool_max(dev) ==
    find_dict_with_keyvalue_in_json(dev.features, "name", "thermostat")
        .setpoint_cool_max
get_unit(dev) ==
    Upper(find_dict_with_keyvalue_in_json(dev.features, "name", "thermostat")
              .scale)

get_zone_cooling_setpoint(zone) == zone.setpoints.cool
get_zone_heating_setpoint(zone) == zone.setpoints.heat
get_zone_current_mode(zone) ==
    Upper(find_dict_with_keyvalue_in_json(zone.settings, "type", "zone_mode")
              .current_value)
get_zone_requested_mode(zone) ==
    Upper(find_dict_with_keyvalue_in_json(zone.features, "name",
                                          "thermostat_mode").value)
get_run_mode(zone) ==
    find_dict_with_keyvalue_in_json(zone.settings, "type", "run_mode")
get_zone_preset_setting(zone) ==
    find_dict_with_keyvalue_in_json(zone.settings, "type", "preset_selected")
\* labels[current_value], Python lists counting from 0
get_zone_preset(zone) ==
    LET preset_selected == get_zone_preset_setting(zone)
    IN  preset_selected.labels[preset_selected.current_value + 1]
\* a zone that is never taken to be in a permanent hold
never_in_hold(zone) == FALSE
is_zone_in_permanent_hold(zone) ==
    get_run_mode(zone).current_value = HOLD_PERMANENT

\* NexiaZone.mode (climate.py), read from the zone's cached record
NexiaZone_mode(zone) ==
    LET requested == get_zone_requested_mode(zone)
        hold == is_zone_in_permanent_hold(zone)
    IN  IF requested = "OFF" THEN "off"
        ELSE IF ~hold /\ requested = "AUTO" THEN "auto"
        ELSE IF requested = "AUTO" THEN "heat_cool"
        ELSE IF requested = "HEAT" THEN "heat"
        ELSE IF requested = "COOL" THEN "cool"
        ELSE ERR_KEY

(***************************************************************************)
(* Setpoint arithmetic.  A temperature is a number of quarter degrees.     *)
(***************************************************************************)
\* an argument that was not given (Python's None where a number may stand)
NoTemp == -1

\* Python's round(): the multiple of d nearest to n, a tie going to the even
\* multiple
round_half_even(n, d) ==
    LET lo == n \div d
        r == n % d
    IN  IF 2 * r < d THEN lo * d
        ELSE IF 2 * r > d THEN (lo + 1) * d
        ELSE IF lo % 2 = 0 THEN lo * d ELSE (lo + 1) * d

\* round_temp: to half a degree for Celsius, to a whole degree otherwise
round_temp(temperature, dev) ==
    IF get_unit(dev) = "C"
    THEN round_half_even(temperature, Deg(1) \div 2)
    ELSE round_half_even(temperature, Deg(1))

\* math.floor(deadband / 2), in quarter degrees: the half that is too small
\* for an odd deadband
floor_half(deadband) == Deg(1) * (deadband \div (2 * Deg(1)))

\* math.ceil(deadband / 2), in quarter degrees
ceil_half(deadband) ==
    Deg(1) * ((deadband + 2 * Deg(1) - 1) \div (2 * Deg(1)))

\* check_heat_cool_setpoints with both temperatures given: TRUE where it
\* returns, FALSE where it raises AttributeError
check_heat_cool_setpoints(heat_temperature, cool_temperature, dev) ==
    LET heat == round_temp(heat_temperature, dev)
        cool == round_temp(cool_temperature, dev)
    IN  /\ heat < cool
        /\ cool - heat >= get_deadband(dev)
        /\ heat <= get_setpoint_cool_max(dev)
        /\ cool >= get_setpoint_heat_min(dev)

(***************************************************************************)
(* Merging a POST's result into the snapshot                               *)
(***************************************************************************)
\* dict.update(data)
Merge(rec, data) ==
    [k \in DOMAIN rec \cup DOMAIN data |->
        IF k \in DOMAIN data THEN data[k] ELSE rec[k]]

\* a merge that does not look at the id: data goes into every device
update_every_thermostat(json, thermostat_id, data) ==
    IF json.none THEN json
    ELSE [json EXCEPT !.items = [i \in DOMAIN @ |-> Merge(@[i], data)]]

\* _update_thermostat_json(thermostat_id, data)
update_thermostat_json(json, thermostat_id, data) ==
    IF json.none THEN json
    ELSE [json EXCEPT !.items =
            [i \in DOMAIN @ |->
                IF @[i].id = thermostat_id THEN Merge(@[i], data) ELSE @[i]]]

\* the zones of one device with data merged into the zone zone_id
update_zones(zones, zone_id, data) ==
    [z \in DOMAIN zones |->
        IF zones[z].id = zone_id THEN Merge(zones[z], data) ELSE zones[z]]

\* _update_zone_json(thermostat_id, zone_id, data)
update_zone_json(json, thermostat_id, zone_id, data) ==
    IF json.none THEN json
    ELSE [json EXCEPT !.items =
            [i \in DOMAIN @ |->
                IF @[i].id = thermostat_id
                THEN Merge(@[i], [zones |-> update_zones(@[i].zones, zone_id,
                                                        data)])
                ELSE @[i]]]

\* _get_zone_post_url and _get_thermostat_post_url; str(None) is "None"
get_zone_post_url(text, zone_id) == "/xxl_zones/" \o zone_id \o "/" \o text
get_thermostat_post_url(text, thermostat_id) ==
    "/xxl_thermostats/" \o thermostat_id \o "/" \o text

(***************************************************************************)
(* What the server may answer to a control POST.  p is the request: its    *)
(* level ("thermostat" or "zone"), the ids, the endpoint text and the      *)
(* payload data.  The result is the part of the addressed record that the  *)
(* command changed, as a fragment of that record, or the payload as it was *)
(* sent.  The server's record is the one the snapshot was fetched from.    *)
(***************************************************************************)
\* list with field set to value in the entries whose key equals name
with_value(list, key, name, field, value) ==
    [i \in DOMAIN list |->
        IF list[i][key] = name THEN [list[i] EXCEPT ![field] = value]
        ELSE list[i]]

applied_thermostat(dev, p) ==
    [settings |->
        with_value(dev.settings, "type",
                   IF p.text = "emergency_heat" THEN "emergency_heat_active"
                   ELSE p.text,
                   "current_value", p.data.value)]

applied_zone(zone, p) ==
    CASE p.text = "setpoints" ->
            [setpoints |-> [heat |-> p.data.heat, cool |-> p.data.cool]]
      [] p.text = "return_to_schedule" ->
            [settings |-> with_value(zone.settings, "type", "run_mode",
                                     "current_value", HOLD_RESUME_SCHEDULE)]
      [] p.text = "zone_mode" ->
            [settings |-> with_value(zone.settings, "type", "zone_mode",
                                     "current_value", p.data.value),
             features |-> with_value(zone.features, "name", "thermostat_mode",
                                     "value", p.data.value)]
      [] OTHER ->
            [settings |-> with_value(zone.settings, "type", p.text,
                                     "current_value", p.data.value)]

post_results(items, p) ==
    (IF p.text = "return_to_schedule" THEN {} ELSE {p.data})
      \cup (IF p.level = "thermostat"
            THEN {applied_thermostat(items[i], p) :
                     i \in {j \in DOMAIN items : items[j].id = p.tid}}
            ELSE UNION {{applied_zone(items[i].zones[z], p) :
                           z \in {y \in DOMAIN items[i].zones :
                                     items[i].zones[y].id = p.zid}} :
                        i \in DOMAIN items})

(***************************************************************************)
(* Control operations.  The operation record holds the arguments (tid is   *)
(* the thermostat_id argument, None where it is omitted), the target       *)
(* setpoints heat and cool once they are known, the requests posted and    *)
(* the results received, and where the operation goes on once its POST has *)
(* returned and its result is merged (next), and once _set_setpoints has   *)
(* returned (then).                                                        *)
(***************************************************************************)
ERR_ATTRIBUTE == "AttributeError"
ERR_TYPE == "TypeError"
ERR_VALUE == "ValueError"
ERR_SYSTEM == "SystemError"
ERR_UNSUPPORTED == "not supported on this thermostat"

\* HUMIDITY_MIN and HUMIDITY_MAX, in percent
HUMIDITY_MIN == 35
HUMIDITY_MAX == 65

HasDev(c) == thermostat_index(c.json.items, c.op.tid) # 0
Dev(c) == c.json.items[thermostat_index(c.json.items, c.op.tid)]
HasZone(c) ==
    HasDev(c) /\ index_with_keyvalue(Dev(c).zones, "id", c.op.zid) # 0
ZoneOf(c) == find_dict_with_keyvalue_in_json(Dev(c).zones, "id", c.op.zid)
\* what the lookup of the device, or of the zone, raises
read_error(c) == IF HasDev(c) THEN ERR_INDEX ELSE thermostat_error(c.op.tid)

\* _post_and_update_thermostat_json / _post_and_update_zone_json, up to the
\* POST
post_and_update(c, level, text, data, next) ==
    LET url == IF level = "zone" THEN get_zone_post_url(text, c.op.zid)
               ELSE get_thermostat_post_url(text, c.op.tid)
        p == [level |-> level, tid |-> c.op.tid, zid |-> c.op.zid,
              text |-> text, url |-> url, data |-> data]
    IN  Request([c EXCEPT !.op.posted = Append(@, p), !.op.next = next], url)

set_fan_mode(c) ==
    LET fan_mode == Lower(c.op.arg.fan_mode)
    IN  IF fan_mode \in FAN_MODES
        THEN post_and_update(c, "thermostat", "fan_mode",
                             [value |-> fan_mode], "done")
        ELSE Raise(c, ERR_KEY)

set_air_cleaner(c) ==
    LET air_cleaner_mode == Lower(c.op.arg.air_cleaner_mode)
    IN  IF air_cleaner_mode \notin AIR_CLEANER_MODES THEN Raise(c, ERR_KEY)
        ELSE IF ~HasDev(c) THEN Raise(c, read_error(c))
        ELSE IF air_cleaner_mode # get_air_cleaner_mode(Dev(c))
        THEN post_and_update(c, "thermostat", "air_cleaner_mode",
                             [value |-> air_cleaner_mode], "done")
        ELSE Return(c, None)

\* has_emergency_heat catches the KeyError of an unknown id
set_emergency_heat(c) ==
    IF ~HasDev(c) /\ c.op.tid = None THEN Raise(c, ERR_INDEX)
    ELSE IF HasDev(c) /\ has_emergency_heat(Dev(c))
    THEN post_and_update(c, "thermostat", "emergency_heat",
                         [value |-> c.op.arg.emergency_heat_on], "done")
    ELSE Raise(c, ERR_UNSUPPORTED)

set_zone_mode(c) ==
    IF c.op.arg.mode \in OPERATION_MODES
    THEN post_and_update(c, "zone", "zone_mode",
                         [value |-> c.op.arg.mode], "done")
    ELSE Raise(c, ERR_KEY)

\* a scan that does not stop at its first hit: the value of the last
\* option labelled preset, 0 if there is none
last_option_value(options, preset) ==
    LET hits == {i \in DOMAIN options : options[i].label = preset}
    IN  IF hits = {} THEN 0
        ELSE options[CHOOSE i \in hits : \A j \in hits : j <= i].value

\* the value of the first option labelled preset, 0 if there is none
preset_value(options, preset) ==
    LET i == index_with_keyvalue(options, "label", preset)
    IN  IF i = 0 THEN 0 ELSE options[i].value

set_zone_preset(c) ==
    IF ~HasZone(c) THEN Raise(c, read_error(c))
    ELSE IF get_zone_preset(ZoneOf(c)) # c.op.arg.preset
    THEN post_and_update(c, "zone", "preset_selected",
            [value |-> preset_value(get_zone_preset_setting(ZoneOf(c)).options,
                                    c.op.arg.preset)], "done")
    ELSE Return(c, None)

\* a setpoint was requested that the device has no support for (and a
\* check that lets every request through)
request_never_refused(supported, given) == FALSE
unsupported_request(supported, given) == ~supported /\ given # NoTemp

\* set_humidity_setpoints(dehumidify_setpoint, humidify_setpoint,
\* thermostat_id), the setpoints in percent, NoTemp where not given
set_humidity_setpoints(c) ==
    LET given_d == c.op.arg.dehumidify_setpoint
        given_h == c.op.arg.humidify_setpoint
        dev == Dev(c)
        h_ok == has_humidify_support(dev)
        d_ok == has_dehumidify_support(dev)
        h0 == IF ~h_ok THEN 0
              ELSE IF given_h = NoTemp THEN get_humidify_setpoint(dev)
              ELSE given_h
        d0 == IF ~d_ok THEN 0
              ELSE IF given_d = NoTemp THEN get_dehumidify_setpoint(dev)
              ELSE given_d
        humidify_setpoint == round_half_even(h0, 5)
        dehumidify_setpoint == round_half_even(d0, 5)
    IN  IF given_d = NoTemp /\ given_h = NoTemp THEN Return(c, None)
        ELSE IF c.op.tid = None THEN Raise(c, ERR_TYPE)
        ELSE IF ~HasDev(c) THEN Raise(c, ERR_UNSUPPORTED)
        ELSE IF ~has_relative_humidity(dev) THEN Raise(c, ERR_UNSUPPORTED)
        ELSE IF unsupported_request(h_ok, given_h) THEN Raise(c, ERR_SYSTEM)
        ELSE IF unsupported_request(d_ok, given_d) THEN Raise(c, ERR_SYSTEM)
        ELSE IF d_ok /\ h_ok
                /\ ~(/\ HUMIDITY_MIN <= humidify_setpoint
                     /\ humidify_setpoint <= dehumidify_setpoint
                     /\ dehumidify_setpoint <= HUMIDITY_MAX)
        THEN Raise(c, ERR_VALUE)
        ELSE IF d_ok /\ ~(HUMIDITY_MIN <= dehumidify_setpoint
                          /\ dehumidify_setpoint <= HUMIDITY_MAX)
        THEN Raise(c, ERR_VALUE)
        ELSE IF h_ok /\ ~(HUMIDITY_MIN <= humidify_setpoint
                          /\ humidify_setpoint <= HUMIDITY_MAX)
        THEN Raise(c, ERR_VALUE)
        ELSE post_and_update(c, "thermostat", "dehumidify",
                             [value |-> dehumidify_setpoint], "done")

\* set_zone_mode as NexiaZone.set_hvac_mode calls it, after its own check
\* of the mode (climate.py:429-438)
hvac_zone_mode(c) ==
    IF c.op.mode \in OPERATION_MODES
    THEN post_and_update(c, "zone", "zone_mode", [value |-> c.op.mode],
                         "done")
    ELSE Raise(c, ERR_KEY)

\* where the operation goes on once _set_setpoints has returned
after_setpoints(c) ==
    IF c.op.then = "zone_mode" THEN hvac_zone_mode(c) ELSE Return(c, None)

\* _set_setpoints(thermostat_id, zone_id, c.op.cool, c.op.heat)
set_setpoints(c) ==
    IF ~HasDev(c) THEN Raise(c, read_error(c))
    ELSE IF ~check_heat_cool_setpoints(c.op.heat, c.op.cool, Dev(c))
    THEN Raise(c, ERR_ATTRIBUTE)
    ELSE IF ~HasZone(c) THEN Raise(c, ERR_INDEX)
    ELSE IF get_zone_cooling_setpoint(ZoneOf(c)) # c.op.cool
            \/ c.op.heat # get_zone_heating_setpoint(ZoneOf(c))
    THEN post_and_update(c, "zone", "setpoints",
                         [heat |-> c.op.heat, cool |-> c.op.cool], c.op.then)
    ELSE after_setpoints(c)

\* _set_mode_and_setpoints(thermostat_id, zone_id, HOLD_PERMANENT, c.op.cool,
\* c.op.heat)
set_mode_and_setpoints(c) ==
    IF ~HasZone(c) THEN Raise(c, read_error(c))
    ELSE IF get_run_mode(ZoneOf(c)).current_value # HOLD_PERMANENT
    THEN post_and_update(c, "zone", "run_mode", [value |-> HOLD_PERMANENT],
                         "set_setpoints")
    ELSE set_setpoints(c)

\* a hold that takes the temperatures as they are given, one missing or not
hold_as_given(c, heat_temperature, cool_temperature) ==
    set_mode_and_setpoints([c EXCEPT !.op.heat = heat_temperature,
                                     !.op.cool = cool_temperature])

\* call_permanent_hold(heat_temperature, cool_temperature, thermostat_id,
\* zone_id)
call_permanent_hold(c, heat_temperature, cool_temperature) ==
    IF heat_temperature = NoTemp /\ cool_temperature = NoTemp
    THEN IF ~HasZone(c) THEN Raise(c, read_error(c))
         ELSE set_mode_and_setpoints(
                 [c EXCEPT !.op.heat = get_zone_heating_setpoint(ZoneOf(c)),
                           !.op.cool = get_zone_cooling_setpoint(ZoneOf(c))])
    ELSE IF heat_temperature # NoTemp /\ cool_temperature # NoTemp
    THEN set_mode_and_setpoints([c EXCEPT !.op.heat = heat_temperature,
                                          !.op.cool = cool_temperature])
    ELSE Raise(c, ERR_ATTRIBUTE)

Min(a, b) == IF a <= b THEN a ELSE b
Max(a, b) == IF a >= b THEN a ELSE b

\* a resolution that keeps the inactive side exactly the deadband away
\* from the active one, whatever the zone's setpoints are
inactive_side_follows(dev, zone, heat_temperature, cool_temperature, set_temperature) ==
    LET deadband == get_deadband(dev)
        set == round_temp(set_temperature, dev)
    IN  IF get_zone_current_mode(zone) = "COOL"
        THEN [cool |-> set, heat |-> set - deadband]
        ELSE [heat |-> set, cool |-> set + deadband]

\* 'if heat_temperature:' / 'if cool_temperature:': None is not given, and
\* neither is a temperature of 0
is_given(temperature) == temperature # NoTemp /\ temperature # 0

\* a resolution that puts the side that is not given exactly the deadband
\* away from the given one, whatever the zone's setpoints are
other_side_at_deadband(dev, zone, heat_temperature, cool_temperature, set_temperature) ==
    LET deadband == get_deadband(dev)
    IN  IF set_temperature # NoTemp
        THEN inactive_side_follows(dev, zone, heat_temperature,
                                   cool_temperature, set_temperature)
        ELSE IF ~is_given(heat_temperature)
        THEN [heat |-> round_temp(cool_temperature, dev) - deadband,
              cool |-> round_temp(cool_temperature, dev)]
        ELSE IF ~is_given(cool_temperature)
        THEN [heat |-> round_temp(heat_temperature, dev),
              cool |-> round_temp(heat_temperature, dev) + deadband]
        ELSE [heat |-> round_temp(heat_temperature, dev),
              cool |-> round_temp(cool_temperature, dev)]

\* the target pair of set_zone_heat_cool_temp(heat_temperature,
\* cool_temperature, set_temperature) with at least one of them given
heat_cool_target(dev, zone, heat_temperature, cool_temperature, set_temperature) ==
    LET deadband == get_deadband(dev)
        cur_heat == get_zone_heating_setpoint(zone)
        cur_cool == get_zone_cooling_setpoint(zone)
        zone_mode == get_zone_current_mode(zone)
        set == round_temp(set_temperature, dev)
        heat == IF is_given(heat_temperature)
                THEN round_temp(heat_temperature, dev)
                ELSE Min(cur_heat, round_temp(cool_temperature, dev) - deadband)
        cool == IF is_given(cool_temperature)
                THEN round_temp(cool_temperature, dev)
                ELSE Max(cur_cool, round_temp(heat, dev) + deadband)
    IN  IF set_temperature = NoTemp THEN [heat |-> heat, cool |-> cool]
        ELSE IF zone_mode = "COOL"
        THEN [cool |-> set,
              heat |-> Min(cur_heat, round_temp(set, dev) - deadband)]
        ELSE IF zone_mode = "HEAT"
        THEN [heat |-> set,
              cool |-> Max(cur_cool, round_temp(set, dev) + deadband)]
        ELSE [cool |-> set + ceil_half(deadband),
              heat |-> set - ceil_half(deadband)]

set_zone_heat_cool_temp(c) ==
    LET a == c.op.arg
        reads_zone == a.set_temperature # NoTemp
                      \/ ~is_given(a.heat_temperature)
                      \/ ~is_given(a.cool_temperature)
    IN  IF ~HasDev(c) THEN Raise(c, read_error(c))
        ELSE IF reads_zone /\ ~HasZone(c) THEN Raise(c, ERR_INDEX)
        ELSE IF a.set_temperature = NoTemp /\ ~is_given(a.heat_temperature)
                /\ a.cool_temperature = NoTemp
        THEN Raise(c, ERR_TYPE)
        ELSE LET target == heat_cool_target(Dev(c), ZoneOf(c),
                              a.heat_temperature, a.cool_temperature,
                              a.set_temperature)
             IN  set_setpoints([c EXCEPT !.op.heat = target.heat,
                                         !.op.cool = target.cool])

\* a set_hvac_mode that sets the mode and nothing before it
hvac_mode_only(c) ==
    hvac_zone_mode([c EXCEPT !.op.mode =
                       Upper(IF c.op.arg.hvac_mode = "heat_cool" THEN "auto"
                             ELSE c.op.arg.hvac_mode)])

\* NexiaZone.set_hvac_mode(hvac_mode), of the entity of (tid, zid)
set_hvac_mode(c) ==
    IF c.op.arg.hvac_mode = "auto"
    THEN post_and_update([c EXCEPT !.op.mode = "AUTO"], "zone",
                         "return_to_schedule", <<>>, "zone_mode")
    ELSE LET hvac_mode == IF c.op.arg.hvac_mode = "heat_cool" THEN "auto"
                          ELSE c.op.arg.hvac_mode
         IN  call_permanent_hold(
                [c EXCEPT !.op.mode = Upper(hvac_mode),
                          !.op.then = "zone_mode"], NoTemp, NoTemp)

\* the pair NexiaZone.set_temperature works out from target_temp_low and
\* target_temp_high (climate.py:279-290); raised says that it subtracted
\* from or with None on the way
entity_target(dev, zone, low, high) ==
    LET deadband == get_deadband(dev)
        cur_cool_temp == get_zone_cooling_setpoint(zone)
        cur_heat_temp == get_zone_heating_setpoint(zone)
        min_temp == get_setpoint_heat_min(dev)
        max_temp == get_setpoint_cool_max(dev)
        heat1 == IF is_given(low) /\ low + deadband > max_temp
                 THEN max_temp - deadband ELSE low
        cool1 == IF is_given(high) /\ high - deadband < min_temp
                 THEN min_temp + deadband ELSE high
        checks_heat == is_given(heat1) /\ heat1 # cur_heat_temp
        cool2 == IF checks_heat /\ cool1 # NoTemp
                    /\ cool1 - heat1 < deadband
                 THEN heat1 + deadband ELSE cool1
        checks_cool == is_given(cool2) /\ cool2 # cur_cool_temp
        heat2 == IF checks_cool /\ heat1 # NoTemp
                    /\ cool2 - heat1 < deadband
                 THEN cool2 - deadband ELSE heat1
    IN  [raised |-> \/ checks_heat /\ cool1 = NoTemp
                    \/ checks_cool /\ heat1 = NoTemp,
         heat |-> heat2, cool |-> cool2]

\* NexiaZone.set_temperature(**kwargs), of the entity of (tid, zid)
NexiaZone_set_temperature(c) ==
    IF ~HasDev(c) THEN Raise(c, read_error(c))
    ELSE IF ~HasZone(c) THEN Raise(c, ERR_INDEX)
    ELSE LET a == c.op.arg
             target == entity_target(Dev(c), ZoneOf(c), a.low, a.high)
         IN  IF target.raised THEN Raise(c, ERR_TYPE)
             ELSE set_zone_heat_cool_temp(
                     [c EXCEPT !.op.arg =
                         [a EXCEPT !.heat_temperature = target.heat,
                                   !.cool_temperature = target.cool,
                                   !.set_temperature = a.temperature,
                                   !.passed = TRUE]])

\* the operation record of a control operation called with arguments arg
ControlOp(name, tid, zid, arg) ==
    [name |-> name, tid |-> tid, zid |-> zid, arg |-> arg,
     heat |-> NoTemp, cool |-> NoTemp, mode |-> None,
     next |-> "done", then |-> "done",
     posted |-> <<>>, replies |-> <<>>, json0 |-> thermostat_json]

ControlOps ==
    {"set_fan_mode", "set_air_cleaner", "set_emergency_heat",
     "set_humidity_setpoints", "set_zone_mode", "set_zone_preset",
     "set_zone_heat_cool_temp", "call_permanent_hold", "set_hvac_mode",
     "set_temperature"}

\* the operation from its call to its first POST, or to its end
control_call(c) ==
    CASE c.op.name = "set_fan_mode" -> set_fan_mode(c)
      [] c.op.name = "set_air_cleaner" -> set_air_cleaner(c)
      [] c.op.name = "set_emergency_heat" -> set_emergency_heat(c)
      [] c.op.name = "set_humidity_setpoints" -> set_humidity_setpoints(c)
      [] c.op.name = "set_zone_mode" -> set_zone_mode(c)
      [] c.op.name = "set_zone_preset" -> set_zone_preset(c)
      [] c.op.name = "set_zone_heat_cool_temp" -> set_zone_heat_cool_temp(c)
      [] c.op.name = "call_permanent_hold" ->
            call_permanent_hold(c, c.op.arg.heat_temperature,
                                c.op.arg.cool_temperature)
      [] OTHER -> set_hvac_mode(c)

\* _post_and_update_thermostat_json / _post_and_update_zone_json from the
\* return of _post_url: the result is merged, and the operation goes on
control_resume(c) ==
    LET p == c.op.posted[Len(c.op.posted)]
        data == c.response.result
        c1 == [c EXCEPT
                 !.status = "running",
                 !.op.replies = Append(@, data),
                 !.json = IF p.level = "zone"
                          THEN update_zone_json(@, p.tid, p.zid, data)
                          ELSE update_thermostat_json(@, p.tid, data)]
    IN  CASE c.op.next = "set_setpoints" -> set_setpoints(c1)
          [] c.op.next = "zone_mode" -> hvac_zone_mode(c1)
          [] OTHER -> Return(c1, None)

(***************************************************************************)
(* Queries.  A lookup evaluates to a record: ok is FALSE where it raises   *)
(* (error says what), none is TRUE where it evaluates to None, value is    *)
(* what it found.  The operation record holds the query's name and its     *)
(* thermostat_id argument tid.                                             *)
(***************************************************************************)
Found(v) == [ok |-> TRUE, none |-> FALSE, error |-> None, value |-> v]
FoundNone == [ok |-> TRUE, none |-> TRUE, error |-> None, value |-> NoEntry]
Missing(err) == [ok |-> FALSE, none |-> FALSE, error |-> err, value |-> NoEntry]

\* _get_thermostat_key(key, thermostat_id)
get_thermostat_key(c, key) ==
    IF ~HasDev(c) THEN Missing(thermostat_error(c.op.tid))
    ELSE IF key \in DOMAIN Dev(c) THEN Found(Dev(c)[key])
    ELSE Missing(ERR_KEY)

\* _get_thermostat_deep_key(area, area_primary_key, key, thermostat_id)
get_thermostat_deep_key(c, area, area_primary_key, key) ==
    IF ~HasDev(c) THEN Missing(thermostat_error(c.op.tid))
    ELSE IF area \notin DOMAIN Dev(c) THEN Missing(ERR_KEY)
    ELSE IF index_with_keyvalue(Dev(c)[area], area_primary_key, key) = 0
    THEN Missing(ERR_KEY)
    ELSE Found(find_dict_with_keyvalue_in_json(Dev(c)[area],
                                               area_primary_key, key))

\* the _or_none wrappers: try ... except KeyError: return None
or_none(r) == IF ~r.ok /\ r.error = ERR_KEY THEN FoundNone ELSE r

\* what a capability flag evaluates to: ok and error as for a lookup, none
\* where the flag is None, truthy where Python takes it for true
Flag(r, truthy) ==
    [ok |-> r.ok, error |-> r.error, none |-> r.none,
     truthy |-> r.ok /\ ~r.none /\ truthy]

\* the has_* methods (lines 663-740)
capability_flag(c, name) ==
    CASE name = "has_outdoor_temperature" ->
            LET r == or_none(get_thermostat_key(c, "has_outdoor_temperature"))
            IN  Flag(r, r.value)
      [] name = "has_relative_humidity" ->
            LET r == or_none(get_thermostat_key(c, "indoor_humidity"))
            IN  [Flag(r, r.value # "") EXCEPT !.none = FALSE]
      [] name = "has_emergency_heat" ->
            LET r == or_none(get_thermostat_key(c, "emergency_heat_supported"))
            IN  [Flag(r, r.value) EXCEPT !.none = FALSE]
      [] name = "has_zones" ->
            LET r == or_none(get_thermostat_key(c, "zones"))
            IN  [Flag(r, r.value # <<>>) EXCEPT !.none = FALSE]
      [] name = "has_variable_fan_speed" ->
            LET r == or_none(get_thermostat_deep_key(c, "settings", "type",
                                                     "fan_speed"))
            IN  [Flag(r, TRUE) EXCEPT !.none = FALSE]
      [] name = "has_dehumidify_support" ->
            LET r == or_none(get_thermostat_deep_key(c, "settings", "type",
                                                     "dehumidify"))
            IN  [Flag(r, TRUE) EXCEPT !.none = FALSE]
      [] OTHER ->
            LET r == or_none(get_thermostat_deep_key(c, "settings", "type",
                                                     "humidify"))
            IN  [Flag(r, TRUE) EXCEPT !.none = FALSE]

CapabilityFlags ==
    {"has_outdoor_temperature", "has_relative_humidity", "has_emergency_heat",
     "has_zones", "has_variable_fan_speed", "has_dehumidify_support",
     "has_humidify_support"}

\* a has_* method called by a caller
flag_query(c) ==
    LET f == capability_flag(c, c.op.name)
    IN  IF f.ok THEN Return(c, [none |-> f.none, truthy |-> f.truthy])
        ELSE Raise(c, f.error)

\* "if self.has_x(thermostat_id): return <lookup> / raise <err>"
if_capable(c, flag, r, err) ==
    IF ~flag.ok THEN Raise(c, flag.error)
    ELSE IF ~flag.truthy THEN Raise(c, err)
    ELSE IF ~r.ok THEN Raise(c, r.error)
    ELSE Return(c, r.value)

\* the value of field in what a lookup found
field_of(r, field) == IF r.ok THEN Found(r.value[field]) ELSE r

\* the getters that depend on a capability (lines 774-930)
capability_value(c) ==
    LET name == c.op.name
        setting(key) == get_thermostat_deep_key(c, "settings", "type", key)
    IN  CASE name = "is_emergency_heat_active" ->
                if_capable(c, capability_flag(c, "has_emergency_heat"),
                           setting("emergency_heat_active"), ERR_UNSUPPORTED)
          [] name = "get_outdoor_temperature" ->
                if_capable(c, capability_flag(c, "has_outdoor_temperature"),
                           get_thermostat_key(c, "outdoor_temperature"),
                           ERR_UNSUPPORTED)
          [] name = "get_relative_humidity" ->
                if_capable(c, capability_flag(c, "has_relative_humidity"),
                           get_thermostat_key(c, "indoor_humidity"),
                           ERR_UNSUPPORTED)
          [] name \in {"get_current_compressor_speed",
                       "get_requested_compressor_speed"} ->
                LET r == or_none(get_thermostat_deep_key(c, "features",
                                    "name", "thermostat_compressor_speed"))
                IN  IF ~r.ok THEN Raise(c, r.error)
                    ELSE IF r.none THEN Return(c, 0)
                    ELSE Return(c, r.value.compressor_speed)
          [] name = "get_fan_speed_setpoint" ->
                if_capable(c, capability_flag(c, "has_variable_fan_speed"),
                           setting("fan_speed"), ERR_ATTRIBUTE)
          [] name = "get_variable_fan_speed_limits" ->
                if_capable(c, capability_flag(c, "has_variable_fan_speed"),
                           field_of(setting("fan_speed"), "values"),
                           ERR_ATTRIBUTE)
          [] name = "get_dehumidify_setpoint" ->
                if_capable(c, capability_flag(c, "has_dehumidify_support"),
                           field_of(setting("dehumidify"), "current_value"),
                           ERR_ATTRIBUTE)
          [] OTHER ->
                if_capable(c, capability_flag(c, "has_humidify_support"),
                           field_of(setting("humidify"), "current_value"),
                           ERR_ATTRIBUTE)

CapabilityValues ==
    {"is_emergency_heat_active", "get_outdoor_temperature",
     "get_relative_humidity", "get_current_compressor_speed",
     "get_requested_compressor_speed", "get_fan_speed_setpoint",
     "get_variable_fan_speed_limits", "get_dehumidify_setpoint",
     "get_humidify_setpoint"}

(***************************************************************************)
(* Path accessors.  An accessor calls _get_thermostat_json(thermostat_id)  *)
(* without force, which may fetch, and looks its path up in the device it  *)
(* is handed.  The operation record is the one of that call, with the      *)
(* accessor's name (query), its key and the ids tid and zid.               *)
(***************************************************************************)
\* a lookup raises err with a message that names key
MissingKey(err, key) == [Missing(err) EXCEPT !.value = key]

\* _get_zone_json(thermostat_id, zone_id)
get_zone_json(c) ==
    IF ~HasDev(c) THEN Missing(thermostat_error(c.op.tid))
    ELSE IF ~HasZone(c) THEN MissingKey(ERR_INDEX, c.op.zid)
    ELSE Found(ZoneOf(c))

\* _get_zone_setting(key, ...) with area "settings" and primary key "type",
\* _get_zone_features(key, ...) with area "features" and primary key "name"
get_zone_deep_key(c, area, area_primary_key, key) ==
    LET zone == get_zone_json(c)
    IN  IF ~zone.ok THEN zone
        ELSE IF index_with_keyvalue(zone.value[area], area_primary_key,
                                    key) = 0
        THEN MissingKey(ERR_KEY, key)
        ELSE Found(find_dict_with_keyvalue_in_json(zone.value[area],
                                                   area_primary_key, key))

\* _get_zone_key(key, thermostat_id, zone_id)
get_zone_key(c, key) ==
    LET zone == get_zone_json(c)
    IN  IF ~zone.ok THEN zone
        ELSE IF key \in DOMAIN zone.value THEN Found(zone.value[key])
        ELSE MissingKey(ERR_KEY, key)

PathAccessors ==
    {"_get_zone_json", "_get_zone_setting", "_get_zone_features",
     "_get_zone_key", "_get_thermostat_deep_key"}

\* the accessor, or the capability flag, c.op.query on the snapshot
path_lookup(c) ==
    CASE c.op.query = "_get_zone_json" -> get_zone_json(c)
      [] c.op.query = "_get_zone_setting" ->
            get_zone_deep_key(c, "settings", "type", c.op.key)
      [] c.op.query = "_get_zone_features" ->
            get_zone_deep_key(c, "features", "name", c.op.key)
      [] c.op.query = "_get_zone_key" -> get_zone_key(c, c.op.key)
      [] c.op.query = "_get_thermostat_deep_key" ->
            get_thermostat_deep_key(c, "settings", "type", c.op.key)
      [] OTHER -> capability_flag(c, c.op.query)

\* the accessor goes on where its _get_thermostat_json has handed it the
\* device, or has raised for the id (the _or_none wrappers catch that); a
\* call that waits, or that a failed fetch ended, is left as it is
lookup_return(c) ==
    IF "query" \notin DOMAIN c.op THEN c
    ELSE IF c.status = "returned"
            \/ (c.status = "raised" /\ c.error \in {ERR_KEY, ERR_INDEX})
    THEN LET r == path_lookup(c)
         IN  IF r.ok THEN Return([c EXCEPT !.error = None], r)
             ELSE Raise([c EXCEPT !.value = IF "value" \in DOMAIN r
                                            THEN r.value ELSE None],
                        r.error)
    ELSE c

(***************************************************************************)
(* State after construction                                                *)
(***************************************************************************)
\* self.thermostat_json = None
NoJson == [none |-> TRUE, items |-> <<>>]
NoOp == [name |-> "none"]
\* a server whose devices play no part (its answers are drawn from
\* ServerItems), which has read nothing and applied no command
NoServer ==
    [items |-> <<>>, read |-> [t \in Threads |-> NoJson], applied |-> <<>>]
NoResult ==
    [caller |-> 0, op |-> NoOp, outcome |-> "none", error |-> None,
     value |-> None, sent |-> <<>>, rcvd |-> <<>>, at |-> 0]

\* NexiaThermostat(house_id, username, password, auto_login=False,
\* update_rate): nothing is sent, nothing is known
InitClient(houses, rates) ==
    /\ GLOBAL_LOGIN_ATTEMPTS_LEFT = GLOBAL_LOGIN_ATTEMPTS
    /\ mobile_id = None
    /\ api_key = None
    /\ house_id \in houses
    /\ update_rate \in rates
    /\ thermostat_json = NoJson
    /\ last_update = NoTime
    /\ mutex = None
    /\ now = 0
    /\ pc = [t \in Threads |-> "idle"]
    /\ op = [t \in Threads |-> NoOp]
    /\ stack = [t \in Threads |-> <<>>]
    /\ sent = [t \in Threads |-> <<>>]
    /\ rcvd = [t \in Threads |-> <<>>]
    /\ result = NoResult
    /\ signins = 0
    /\ calls = 0
    /\ server = NoServer

(***************************************************************************)
(* A step of caller t ends in context c: the shared state is written back; *)
(* the caller blocks (on the network or the mutex) or its operation ends   *)
(* and its outcome is recorded with its logs and the time.  r is the log   *)
(* of statuses received.  result is kept until another operation ends or   *)
(* its caller makes its next call.                                         *)
(***************************************************************************)
Ended(c) == c.status \in {"returned", "raised"}

Commit(t, c, r) ==
    /\ GLOBAL_LOGIN_ATTEMPTS_LEFT' = c.left
    /\ mobile_id' = c.mobile_id
    /\ api_key' = c.api_key
    /\ house_id' = c.house_id
    /\ thermostat_json' = c.json
    /\ last_update' = c.last_update
    /\ mutex' = c.mutex
    /\ signins' = signins + Count(c.sent, SIGN_IN) - Count(Ctx(t).sent, SIGN_IN)
    /\ pc' = [pc EXCEPT ![t] = IF c.status = "running" THEN "net"
                               ELSE IF c.status = "blocked" THEN "lock"
                               ELSE "idle"]
    /\ op' = [op EXCEPT ![t] = IF Ended(c) THEN NoOp ELSE c.op]
    /\ stack' = [stack EXCEPT ![t] = c.stack]
    /\ sent' = [sent EXCEPT ![t] = IF Ended(c) THEN <<>> ELSE c.sent]
    /\ rcvd' = [rcvd EXCEPT ![t] = IF Ended(c) THEN <<>> ELSE r]
    /\ result' = IF Ended(c)
                 THEN [caller |-> t, op |-> c.op, outcome |-> c.status,
                       error |-> c.error, value |-> c.value,
                       sent |-> c.sent, rcvd |-> r, at |-> now]
                 ELSE IF result.caller = t THEN NoResult ELSE result
    /\ calls' = IF pc[t] = "idle" /\ c.op.name \in ControlOps
                THEN calls + 1 ELSE calls
    /\ server' = c.server
    /\ UNCHANGED <<update_rate, now>>

\* a caller that goes on with its merge whether its request failed or not
resume_after_failure(c, t) == control_resume(c)

\* the operation of caller t goes on after the transport handed control
\* back to it (returned a response or raised)
op_resume(c, t) ==
    IF c.op.name \in {"login", "get", "post"}
    THEN [c EXCEPT !.value = c.response.status]
    ELSE IF c.op.name = "get_thermostat_json"
    THEN lookup_return(fetch_resume(c))
    ELSE IF c.status = "raised" THEN c
    ELSE control_resume(c)

Resume(c, t) == IF Ended(c) THEN op_resume(c, t) ELSE c

(***************************************************************************)
(* Transport operations                                                    *)
(***************************************************************************)
Start(t, o) == [Ctx(t) EXCEPT !.op = o]

\* a caller calls login()
CallLogin(t, maxSignins) ==
    /\ pc[t] = "idle"
    /\ signins < maxSignins
    /\ Commit(t, Resume(login(Start(t, [name |-> "login", url |-> LOGIN,
                          left0 |-> GLOBAL_LOGIN_ATTEMPTS_LEFT])), t), <<>>)

\* a caller calls _get_url(url)
CallGet(t, url) ==
    /\ pc[t] = "idle"
    /\ Commit(t, Request(Start(t, [name |-> "get", url |-> url,
                          left0 |-> GLOBAL_LOGIN_ATTEMPTS_LEFT]), url), <<>>)

\* a caller calls _post_url(url, payload)
CallPost(t, url) ==
    /\ pc[t] = "idle"
    /\ Commit(t, Request(Start(t, [name |-> "post", url |-> url,
                          left0 |-> GLOBAL_LOGIN_ATTEMPTS_LEFT]), url), <<>>)

\* what a 200 answer to the request caller t has in flight may carry
Results(t) ==
    IF Top(stack[t]) = HOUSES
    THEN {[items |-> items] : items \in ServerItems}
    ELSE IF op[t].name \in ControlOps
            /\ Top(stack[t]) = op[t].posted[Len(op[t].posted)].url
    THEN post_results(thermostat_json.items,
                      op[t].posted[Len(op[t].posted)])
    ELSE {NoPayload}

\* the server answers the request caller t has in flight
ServerRespond(t, maxSent, maxSignins) ==
    /\ pc[t] = "net"
    /\ \E resp \in Responses(Top(stack[t]), Results(t)) :
         LET c == Resume(url_response(Ctx(t), resp), t)
         IN  /\ Len(c.sent) <= maxSent
             /\ signins + Count(c.sent, SIGN_IN) - Count(sent[t], SIGN_IN)
                    <= maxSignins
             /\ Commit(t, c, Append(rcvd[t], resp.status))

\* login() on a second client of the same process, one constructed with
\* offline_json: it shares the module-level counter and nothing else
OfflineLogin ==
    /\ GLOBAL_LOGIN_ATTEMPTS_LEFT > 0
    /\ GLOBAL_LOGIN_ATTEMPTS_LEFT' = offline_login(Ctx(1)).left
    /\ UNCHANGED <<mobile_id, api_key, house_id, update_rate, thermostat_json,
                   last_update, mutex, now, pc, op, stack, sent, rcvd, result,
                   signins, calls, server>>

(***************************************************************************)
(* Cache operations                                                        *)
(***************************************************************************)
\* the age of the snapshot: seconds since the last successful fetch
Age == IF last_update = NoTime THEN NoTime ELSE now - last_update

\* the operation record of _get_thermostat_json(id, force).  auth0, none0
\* and age0 are the state the call is made in: authenticated, no snapshot,
\* the snapshot's age.  recheck is what the call finds once it holds the
\* mutex: "none" while it has not taken it, "stale" (no snapshot, or one
\* older than the update rate allows) or "fresh".
FetchOp(id, force) ==
    [name |-> "get_thermostat_json", id |-> id, force |-> force,
     auth0 |-> mobile_id # None,
     none0 |-> thermostat_json.none,
     age0 |-> Age,
     recheck |-> "none"]

\* a query: _get_thermostat_json(thermostat_id) with force_update=False
Query(t, id) ==
    /\ pc[t] = "idle"
    /\ Commit(t, get_thermostat_json(Start(t, FetchOp(id, FALSE))), <<>>)

\* update(): _get_thermostat_json(ALL_IDS, force_update=True)
Update(t) ==
    /\ pc[t] = "idle"
    /\ Commit(t, get_thermostat_json(Start(t, FetchOp(ALL_IDS, TRUE))), <<>>)

\* NexiaZone._update: the host's poll; scan_interval defaults to
\* DEFAULT_UPDATE_RATE (__init__.py:66-68)
ZoneUpdate(t) ==
    /\ pc[t] = "idle"
    /\ last_update = NoTime \/ now - last_update > DEFAULT_UPDATE_RATE
    /\ Commit(t, get_thermostat_json(Start(t, FetchOp(ALL_IDS, TRUE))), <<>>)

\* a caller waiting at the with-statement gets the mutex
AcquireMutex(t) ==
    /\ pc[t] = "lock"
    /\ mutex = None
    /\ Commit(t, lookup_return(locked_get_thermostat_json(
                    [Ctx(t) EXCEPT !.op.recheck =
                        IF thermostat_json.none
                           \/ (update_rate # DISABLE_AUTO_UPDATE
                               /\ Age > update_rate)
                        THEN "stale" ELSE "fresh"], t)), <<>>)

\* time passes
Tick(d, maxTime) ==
    /\ now + d <= maxTime
    /\ now' = now + d
    /\ UNCHANGED <<GLOBAL_LOGIN_ATTEMPTS_LEFT, mobile_id, api_key, house_id,
                   update_rate, thermostat_json, last_update, mutex,
                   pc, op, stack, sent, rcvd, result, signins, calls, server>>

(***************************************************************************)
(* Control operations, called on a client that holds a snapshot, or, for   *)
(* the operations that post without reading it first, on one that has      *)
(* logged in and fetched nothing yet                                       *)
(***************************************************************************)
Control(t, o) ==
    /\ pc[t] = "idle"
    /\ calls < MaxCalls
    /\ mobile_id # None
    /\ ~thermostat_json.none \/ o.name \in {"set_fan_mode", "set_zone_mode"}
    /\ Commit(t, control_call(Start(t, o)), <<>>)

\* the host calls set_temperature on the entity of zone Z1 of device T1
LowArgs == {NoTemp, Deg(68), Deg(70), Deg(71), Deg(98)}
HighArgs == {NoTemp, Deg(56), Deg(70), Deg(72), Deg(76)}
TemperatureArgs == {NoTemp, Deg(70)}

SetTemperature(t) ==
    \E low \in LowArgs, high \in HighArgs, temperature \in TemperatureArgs :
        /\ pc[t] = "idle"
        /\ calls < MaxCalls
        /\ mobile_id # None
        /\ ~thermostat_json.none
        /\ Commit(t, NexiaZone_set_temperature(
                         Start(t, ControlOp("set_temperature", "T1", "Z1",
                                            [low |-> low, high |-> high,
                                             temperature |-> temperature,
                                             heat_temperature |-> NoTemp,
                                             cool_temperature |-> NoTemp,
                                             set_temperature |-> NoTemp,
                                             passed |-> FALSE]))), <<>>)

\* the arguments the callers pass
TidArgs == {"T1", None}
ZidArgs == {"Z1"}
FanModeArgs == {"auto", "ON", "turbo"}
AirCleanerArgs == {"auto", "Quick", "turbo"}
DehumidifyArgs == {NoTemp, 35, 50, 52, 70}
HumidifyArgs == {NoTemp, 40, 70}
ZoneModeArgs == {"AUTO", "COOL", "auto"}
PresetArgs == {"Home", "Away", "Sleep"}
HeatArgs == {NoTemp, Deg(50), Deg(68), Deg(69) + 1, Deg(70) + 2, Deg(80)}
CoolArgs == {NoTemp, Deg(70), Deg(72), Deg(76), Deg(100)}
SetArgs == {Deg(66), Deg(70), Deg(74) + 1, Deg(76)}
HvacModeArgs == {"off", "auto", "heat_cool", "heat", "cool", "dry"}

SetFanMode(t) ==
    \E tid \in TidArgs, fan_mode \in FanModeArgs :
        Control(t, ControlOp("set_fan_mode", tid, "Z1",
                             [fan_mode |-> fan_mode]))

SetAirCleaner(t) ==
    \E tid \in TidArgs, air_cleaner_mode \in AirCleanerArgs :
        Control(t, ControlOp("set_air_cleaner", tid, "Z1",
                             [air_cleaner_mode |-> air_cleaner_mode]))

SetEmergencyHeat(t) ==
    \E tid \in TidArgs, emergency_heat_on \in BOOLEAN :
        Control(t, ControlOp("set_emergency_heat", tid, "Z1",
                             [emergency_heat_on |-> emergency_heat_on]))

SetHumiditySetpoints(t) ==
    \E tid \in TidArgs, d \in DehumidifyArgs, h \in HumidifyArgs :
        Control(t, ControlOp("set_humidity_setpoints", tid, "Z1",
                             [dehumidify_setpoint |-> d,
                              humidify_setpoint |-> h]))

SetZoneMode(t) ==
    \E tid \in TidArgs, zid \in ZidArgs, mode \in ZoneModeArgs :
        Control(t, ControlOp("set_zone_mode", tid, zid, [mode |-> mode]))

SetZonePreset(t) ==
    \E tid \in TidArgs, zid \in ZidArgs, preset \in PresetArgs :
        Control(t, ControlOp("set_zone_preset", tid, zid,
                             [preset |-> preset]))

SetZoneHeatCoolTemp(t) ==
    \E tid \in TidArgs, zid \in ZidArgs,
       a \in (HeatArgs \X CoolArgs \X {NoTemp})
                \cup ({NoTemp} \X {NoTemp} \X SetArgs) :
        Control(t, ControlOp("set_zone_heat_cool_temp", tid, zid,
                             [heat_temperature |-> a[1],
                              cool_temperature |-> a[2],
                              set_temperature |-> a[3]]))

CallPermanentHold(t) ==
    \E tid \in TidArgs, zid \in ZidArgs,
       heat \in HeatArgs, cool \in CoolArgs :
        Control(t, ControlOp("call_permanent_hold", tid, zid,
                             [heat_temperature |-> heat,
                              cool_temperature |-> cool]))

\* NexiaZone.set_hvac_mode: the entity holds its device's and zone's ids
SetHvacMode(t) ==
    \E hvac_mode \in HvacModeArgs :
        Control(t, ControlOp("set_hvac_mode", "T1", "Z1",
                             [hvac_mode |-> hvac_mode]))

(***************************************************************************)
(* The transport on its own: one caller making login, get and post calls   *)
(* against a server that may answer anything.                              *)
(***************************************************************************)
POST_URL == "/xxl_zones/zone_id/zone_mode"

InitTransport == InitClient({None, "house_id"}, {DEFAULT_UPDATE_RATE})

NextTransport ==
    \/ CallLogin(1, MaxSignins)
    \/ CallGet(1, HOUSES)
    \/ CallPost(1, POST_URL)
    \/ ServerRespond(1, MaxSent, MaxSignins)
    \/ OfflineLogin

SpecTransport == InitTransport /\ [][NextTransport]_vars


(***************************************************************************)
(* The cache under concurrent callers: queries, forced updates and the     *)
(* host's poll, while time passes.                                         *)
(***************************************************************************)
TickSteps == {DEFAULT_UPDATE_RATE, DEFAULT_UPDATE_RATE + 1}

InitCache == InitClient({"house_id"}, {DEFAULT_UPDATE_RATE, DISABLE_AUTO_UPDATE})

NextCache ==
    \/ \E t \in Threads : CallLogin(t, MaxCacheSignins)
    \/ \E t \in Threads : \E id \in {ALL_IDS, None} : Query(t, id)
    \/ \E t \in Threads : Update(t)
    \/ \E t \in Threads : ZoneUpdate(t)
    \/ \E t \in Threads : AcquireMutex(t)
    \/ \E t \in Threads : ServerRespond(t, MaxCacheSent, MaxCacheSignins)
    \/ \E d \in TickSteps : Tick(d, MaxTime)

SpecCache == InitCache /\ [][NextCache]_vars

(***************************************************************************)
(* Control operations of one caller on a client as the integration         *)
(* constructs it (__init__.py:70-77): auto_login, so that the constructor  *)
(* has logged in and fetched the snapshot, and update_rate                 *)
(* DISABLE_AUTO_UPDATE, so that no read refetches it; or with auto_login   *)
(* off and login() called, so that it holds no snapshot yet.               *)
(***************************************************************************)
HeldZone(zid) == Zone(zid, Deg(68), Deg(72), HOLD_PERMANENT, "COOL", 0)
HeatingZone(zid) == Zone(zid, Deg(68), Deg(72), HOLD_PERMANENT, "HEAT", 0)
OffZone(zid) == Zone(zid, Deg(68), Deg(72), HOLD_RESUME_SCHEDULE, "OFF", 1)

\* the device dev as a model of thermostat that reports the deadband
\* setpoint_delta
with_deadband(dev, setpoint_delta) ==
    [dev EXCEPT !.features =
        with_value(@, "name", "thermostat", "setpoint_delta", setpoint_delta)]

ControlItems ==
    {<<Device("T1", "System Idle", <<DefaultZone("Z1")>>)>>,
     <<Device("T1", "Cooling", <<HeldZone("Z1")>>)>>,
     <<Device("T1", "System Idle", <<DefaultZone("Z1")>>),
       Device("T2", "System Idle", <<DefaultZone("Z2")>>)>>,
     <<without_settings(Device("T1", "System Idle", <<DefaultZone("Z1")>>),
                        {"dehumidify"})>>,
     <<without_settings(Device("T1", "System Idle", <<DefaultZone("Z1")>>),
                        {"humidify"})>>,
     <<Device("T1", "Heating", <<HeatingZone("Z1")>>)>>,
     <<with_deadband(Device("T1", "System Idle", <<OffZone("Z1")>>),
                     Deg(2))>>}

InitControl ==
    /\ GLOBAL_LOGIN_ATTEMPTS_LEFT = GLOBAL_LOGIN_ATTEMPTS
    /\ mobile_id = "mobile_id"
    /\ api_key = "api_key"
    /\ house_id = "house_id"
    /\ update_rate = DISABLE_AUTO_UPDATE
    /\ \/ /\ \E items \in ControlItems :
                thermostat_json = [none |-> FALSE, items |-> items]
          /\ last_update = 0
       \/ /\ thermostat_json = NoJson
          /\ last_update = NoTime
    /\ mutex = None
    /\ now = 0
    /\ pc = [t \in Threads |-> "idle"]
    /\ op = [t \in Threads |-> NoOp]
    /\ stack = [t \in Threads |-> <<>>]
    /\ sent = [t \in Threads |-> <<>>]
    /\ rcvd = [t \in Threads |-> <<>>]
    /\ result = NoResult
    /\ signins = 1
    /\ calls = 0
    /\ server = NoServer

NextControl ==
    \/ SetFanMode(1)
    \/ SetAirCleaner(1)
    \/ SetEmergencyHeat(1)
    \/ SetHumiditySetpoints(1)
    \/ SetZoneMode(1)
    \/ SetZonePreset(1)
    \/ SetZoneHeatCoolTemp(1)
    \/ CallPermanentHold(1)
    \/ SetHvacMode(1)
    \/ ServerRespond(1, MaxControlSent, MaxControlSignins)

SpecControl == InitControl /\ [][NextControl]_vars

(***************************************************************************)
(* Queries on a populated snapshot.  The client is constructed as for the  *)
(* control operations; the account has no device, one or two, and a device *)
(* reports all of the optional capabilities, some or none.                 *)
(***************************************************************************)
\* a device with outdoor sensor, variable fan speed and compressor speed
EquippedDevice(tid, zones) ==
    LET dev == Device(tid, "Cooling", zones)
    IN  Merge(dev,
              [has_outdoor_temperature |-> TRUE,
               outdoor_temperature |-> "75",
               settings |-> Append(dev.settings,
                              [type |-> "fan_speed", current_value |-> 50,
                               values |-> <<35, 100>>]),
               features |-> Append(dev.features,
                              [name |-> "thermostat_compressor_speed",
                               compressor_speed |-> 50])])

\* a device that reports none of the optional capabilities
BareDevice(tid) ==
    [id |-> tid,
     system_status |-> "System Idle",
     settings |-> <<[type |-> "fan_mode", current_value |-> "auto"]>>,
     features |-> <<ThermostatFeature>>,
     zones |-> <<>>]

QueryItems ==
    {<<>>,
     <<EquippedDevice("T1", <<DefaultZone("Z1")>>)>>,
     <<Device("T1", "System Idle", <<DefaultZone("Z1")>>)>>,
     <<BareDevice("T1")>>,
     <<EquippedDevice("T1", <<DefaultZone("Z1")>>), BareDevice("T2")>>}

QueryIdArgs == {None, "T1", "T2", "T9"}

\* a caller calls one of the has_* methods
HasCapability(t) ==
    \E name \in CapabilityFlags, tid \in QueryIdArgs :
        /\ pc[t] = "idle"
        /\ Commit(t, flag_query(Start(t, [name |-> name, tid |-> tid])), <<>>)

\* a caller calls one of the getters that depend on a capability
GetCapabilityValue(t) ==
    \E name \in CapabilityValues, tid \in QueryIdArgs :
        /\ pc[t] = "idle"
        /\ Commit(t, capability_value(Start(t, [name |-> name,
                                                 tid |-> tid])), <<>>)

\* a caller reads the snapshot: _get_thermostat_json(thermostat_id)
GetSnapshot(t) ==
    \E id \in QueryIdArgs \cup {ALL_IDS} : Query(t, id)

InitQuery ==
    /\ GLOBAL_LOGIN_ATTEMPTS_LEFT = GLOBAL_LOGIN_ATTEMPTS
    /\ mobile_id = "mobile_id"
    /\ api_key = "api_key"
    /\ house_id = "house_id"
    /\ update_rate = DISABLE_AUTO_UPDATE
    /\ \E items \in QueryItems :
          thermostat_json = [none |-> FALSE, items |-> items]
    /\ last_update = 0
    /\ mutex = None
    /\ now = 0
    /\ pc = [t \in Threads |-> "idle"]
    /\ op = [t \in Threads |-> NoOp]
    /\ stack = [t \in Threads |-> <<>>]
    /\ sent = [t \in Threads |-> <<>>]
    /\ rcvd = [t \in Threads |-> <<>>]
    /\ result = NoResult
    /\ signins = 1
    /\ calls = 0
    /\ server = NoServer

NextQuery ==
    \/ HasCapability(1)
    \/ GetCapabilityValue(1)
    \/ GetSnapshot(1)

SpecQuery == InitQuery /\ [][NextQuery]_vars

(***************************************************************************)
(* Path accessors and capability flags on a client whose snapshot ages:    *)
(* one caller looks things up and forces updates while time passes.        *)
(***************************************************************************)
\* the operation record of an accessor called with key for (id, zid)
LookupOp(id, zid, query, key) ==
    Merge(FetchOp(id, FALSE),
          [tid |-> id, zid |-> zid, query |-> query, key |-> key])

LookupKeyArgs == {"zone_mode", "thermostat_mode", "fan_mode", "id"}
LookupIdArgs == {None, "T1", "T9"}
LookupZidArgs == {"Z1", "Z9"}

\* a caller calls one of the path accessors
Lookup(t) ==
    \E query \in PathAccessors, key \in LookupKeyArgs,
       id \in LookupIdArgs, zid \in LookupZidArgs :
        /\ pc[t] = "idle"
        /\ Commit(t, lookup_return(get_thermostat_json(
                         Start(t, LookupOp(id, zid, query, key)))), <<>>)

\* a caller calls one of the has_* methods
CapabilityLookup(t) ==
    \E name \in CapabilityFlags, id \in LookupIdArgs :
        /\ pc[t] = "idle"
        /\ Commit(t, lookup_return(get_thermostat_json(
                         Start(t, LookupOp(id, "Z1", name, None)))), <<>>)

LookupItems ==
    {<<EquippedDevice("T1", <<DefaultZone("Z1")>>)>>,
     <<BareDevice("T1"), EquippedDevice("T2", <<DefaultZone("Z1")>>)>>}

InitLookup ==
    /\ GLOBAL_LOGIN_ATTEMPTS_LEFT = GLOBAL_LOGIN_ATTEMPTS
    /\ mobile_id = "mobile_id"
    /\ api_key = "api_key"
    /\ house_id = "house_id"
    /\ update_rate \in {DEFAULT_UPDATE_RATE, DISABLE_AUTO_UPDATE}
    /\ \E items \in LookupItems :
          thermostat_json = [none |-> FALSE, items |-> items]
    /\ last_update = 0
    /\ mutex = None
    /\ now = 0
    /\ pc = [t \in Threads |-> "idle"]
    /\ op = [t \in Threads |-> NoOp]
    /\ stack = [t \in Threads |-> <<>>]
    /\ sent = [t \in Threads |-> <<>>]
    /\ rcvd = [t \in Threads |-> <<>>]
    /\ result = NoResult
    /\ signins = 1
    /\ calls = 0
    /\ server = NoServer

NextLookup ==
    \/ Lookup(1)
    \/ CapabilityLookup(1)
    \/ Update(1)
    \/ AcquireMutex(1)
    \/ ServerRespond(1, MaxCacheSent, MaxLookupSignins)
    \/ \E d \in TickSteps : Tick(d, MaxTime)

SpecLookup == InitLookup /\ [][NextLookup]_vars

(***************************************************************************)
(* The host's set_temperature calls on a zone entity, on the client and    *)
(* the snapshots of the control operations                                 *)
(***************************************************************************)
InitEntity == InitControl /\ ~thermostat_json.none

NextEntity ==
    \/ SetTemperature(1)
    \/ ServerRespond(1, MaxControlSent, MaxControlSignins)

SpecEntity == InitEntity /\ [][NextEntity]_vars

(***************************************************************************)
(* A control operation of caller 1 beside a refresh of caller 2.  Here the *)
(* server holds the account's devices: it applies a command when it        *)
(* answers the POST with 200 and returns the part of the record the        *)
(* command changed; for a GET it reads its devices at some moment between  *)
(* the request and the answer, and answers with what it read.  Nothing but *)
(* the client's own commands changes the devices.                          *)
(***************************************************************************)
\* the request of caller t in flight is the POST of its control operation
ControlPost(t) ==
    /\ op[t].name \in ControlOps
    /\ Top(stack[t]) = op[t].posted[Len(op[t].posted)].url

\* the server's devices with the result of command p merged in
served_items(items, p, data) ==
    LET json == [none |-> FALSE, items |-> items]
    IN  IF p.level = "zone"
        THEN update_zone_json(json, p.tid, p.zid, data).items
        ELSE update_thermostat_json(json, p.tid, data).items

\* the server reads its devices for the answer to the GET of caller t
HousesRead(t) ==
    /\ pc[t] = "net"
    /\ Top(stack[t]) = HOUSES
    /\ server.read[t].none
    /\ server' = [server EXCEPT
                     !.read[t] = [none |-> FALSE, items |-> server.items]]
    /\ UNCHANGED <<GLOBAL_LOGIN_ATTEMPTS_LEFT, mobile_id, api_key, house_id,
                   update_rate, thermostat_json, last_update, mutex, now,
                   pc, op, stack, sent, rcvd, result, signins, calls>>

\* what a 200 answer to the request caller t has in flight carries
ServedResults(t) ==
    IF Top(stack[t]) = HOUSES
    THEN IF server.read[t].none THEN {}
         ELSE {[items |-> server.read[t].items]}
    ELSE IF ControlPost(t)
    THEN post_results(server.items, op[t].posted[Len(op[t].posted)])
            \ {op[t].posted[Len(op[t].posted)].data}
    ELSE {NoPayload}

\* the server after it has answered resp to the request of caller t
served(t, resp) ==
    IF Top(stack[t]) = HOUSES
    THEN [server EXCEPT !.read[t] = NoJson]
    ELSE IF ControlPost(t) /\ resp.status = 200
    THEN LET p == op[t].posted[Len(op[t].posted)]
         IN  [server EXCEPT
                !.items = served_items(@, p, resp.result),
                !.applied = Append(@, p.text)]
    ELSE server

\* the server answers the request caller t has in flight
ServedRespond(t, maxSent, maxSignins) ==
    /\ pc[t] = "net"
    /\ \E resp \in Responses(Top(stack[t]), ServedResults(t)) :
         LET c0 == [Ctx(t) EXCEPT !.server = served(t, resp)]
             c == Resume(url_response(c0, resp), t)
         IN  /\ Len(c.sent) <= maxSent
             /\ signins + Count(c.sent, SIGN_IN) - Count(sent[t], SIGN_IN)
                    <= maxSignins
             /\ Commit(t, c, Append(rcvd[t], resp.status))

RaceItems == <<Device("T1", "System Idle", <<DefaultZone("Z1")>>)>>

InitRace ==
    /\ GLOBAL_LOGIN_ATTEMPTS_LEFT = GLOBAL_LOGIN_ATTEMPTS
    /\ mobile_id = "mobile_id"
    /\ api_key = "api_key"
    /\ house_id = "house_id"
    /\ update_rate = DEFAULT_UPDATE_RATE
    /\ thermostat_json = [none |-> FALSE, items |-> RaceItems]
    /\ last_update = 0
    /\ mutex = None
    /\ now = 0
    /\ pc = [t \in Threads |-> "idle"]
    /\ op = [t \in Threads |-> NoOp]
    /\ stack = [t \in Threads |-> <<>>]
    /\ sent = [t \in Threads |-> <<>>]
    /\ rcvd = [t \in Threads |-> <<>>]
    /\ result = NoResult
    /\ signins = 1
    /\ calls = 0
    /\ server = [NoServer EXCEPT !.items = RaceItems]

NextRace ==
    \/ \E fan_mode \in {"on", "circulate"} :
          Control(1, ControlOp("set_fan_mode", "T1", "Z1",
                               [fan_mode |-> fan_mode]))
    \/ \E mode \in {"COOL", "HEAT"} :
          Control(1, ControlOp("set_zone_mode", "T1", "Z1", [mode |-> mode]))
    \/ Update(2)
    \/ AcquireMutex(2)
    \/ HousesRead(2)
    \/ ServedRespond(1, MaxControlSent, MaxControlSignins)
    \/ ServedRespond(2, MaxControlSent, MaxControlSignins)

SpecRace == InitRace /\ [][NextRace]_vars

(***************************************************************************)
(* Claims about the session transport (checked under SpecTransport)        *)
(***************************************************************************)
\* a get or post call has just ended
FinishedCall == result.op.name \in {"get", "post"}

\* the position in log s of the n-th request for url (0 if there is none)
NthSend(s, url, n) ==
    LET hits == {i \in 1..Len(s) :
                    s[i] = url
                    /\ Cardinality({j \in 1..i : s[j] = url}) = n}
    IN  IF hits = {} THEN 0 ELSE CHOOSE i \in hits : TRUE

\* C1: a get or post call whose first answer is 302 makes exactly one
\* re-login and sends its request exactly once more, and ends the way the
\* answer to that one retried request says: returned for 200, raised
\* otherwise.  (The claim as stated; the code re-logs in and retries again
\* for every 302 it receives.)
C1_OneReloginOneRetry ==
    /\ \A t \in Threads :
          op[t].name \in {"get", "post"} /\ rcvd[t] # <<>> /\ rcvd[t][1] = 302
          => /\ Count(sent[t], SIGN_IN) <= 1
             /\ Count(sent[t], op[t].url) <= 2
    /\ FinishedCall /\ result.rcvd # <<>> /\ result.rcvd[1] = 302
       => LET k == NthSend(result.sent, result.op.url, 2)
          IN  /\ Count(result.sent, SIGN_IN) <= 1
              /\ Count(result.sent, result.op.url) <= 2
              /\ k # 0
                 => /\ Count(result.sent, SIGN_IN) = 1
                    /\ Count(result.sent, result.op.url) = 2
                    /\ result.outcome = "returned" <=> result.rcvd[k] = 200

\* C2: the sign-in requests sent over the client's lifetime never exceed
\* the login-attempt limit.  (The claim as stated; the counter is never
\* decremented by a client that is online.)
C2_SigninsBounded == signins <= GLOBAL_LOGIN_ATTEMPTS

\* C3 as stated: a call made with the counter exhausted ends in the
\* authentication-exhausted error without having sent anything
C3_AllCallsFailFast ==
    result.op.name \in {"login", "get", "post"} /\ result.op.left0 = 0
    => /\ result.outcome = "raised"
       /\ result.error = ERR_EXHAUSTED
       /\ result.sent = <<>>

\* C3 as amended: with the counter exhausted, login() raises the
\* authentication-exhausted error without sending anything, and a get or
\* post sends its own request only: no sign-in follows, and a 302 answer
\* ends the call in the authentication-exhausted error
C3_LoginFailsFast ==
    result.op.name \in {"login", "get", "post"} /\ result.op.left0 = 0
    => IF result.op.name = "login"
       THEN /\ result.outcome = "raised"
            /\ result.error = ERR_EXHAUSTED
            /\ result.sent = <<>>
       ELSE /\ result.sent = <<result.op.url>>
            /\ result.rcvd[1] = 302
               => /\ result.outcome = "raised"
                  /\ result.error = ERR_EXHAUSTED

\* a get made with the counter exhausted was answered 302 and ended in the
\* authentication-exhausted error
C3_Witness ==
    /\ result.op.name = "get"
    /\ result.op.left0 = 0
    /\ result.rcvd = <<302>>
    /\ result.error = ERR_EXHAUSTED

FinalStatus ==
    LET n == Len(result.rcvd)
    IN  IF FinishedCall /\ n > 0 /\ result.sent[n] = result.op.url
        THEN result.rcvd[n] ELSE 0

\* C21: a get or post call whose final answer has a status outside 2xx
\* raises a transport error, and one whose final answer has any 2xx status
\* returns without error.  (The claim as stated; the code passes status 200
\* only.  A final 302 is the case of the refused re-login and is left to C3.)
C21_TwoHundredsReturn ==
    FinalStatus \notin {0, 302}
    => IF FinalStatus \in 200..299
       THEN result.outcome = "returned"
       ELSE result.outcome = "raised" /\ result.error = ERR_TRANSPORT

(***************************************************************************)
(* Claims about the cache (checked under SpecCache)                        *)
(***************************************************************************)
\* a non-forced _get_thermostat_json of an authenticated caller has ended
FinishedQuery ==
    /\ result.op.name = "get_thermostat_json"
    /\ ~result.op.force
    /\ result.op.auth0

\* the operation that ended sent GET /houses/{house_id}
Fetched == Count(result.sent, HOUSES) > 0

\* C8: with update_rate = 120 s on an authenticated client that holds a
\* snapshot, a non-forced query made when the snapshot is at most 120 s old
\* sends nothing; one made when it is older goes to the fetch: unless
\* another caller refreshed the snapshot while it waited for the mutex, it
\* sends GET /houses (once, plus one resend per 302 answer), and when it
\* returns the snapshot's time stamp is the time of its return
C8_StaleAfterRate ==
    FinishedQuery /\ update_rate = DEFAULT_UPDATE_RATE /\ ~result.op.none0
    => /\ result.op.age0 <= DEFAULT_UPDATE_RATE
          => ~Fetched /\ result.sent = <<>> /\ result.outcome = "returned"
       /\ result.op.age0 > DEFAULT_UPDATE_RATE
          => /\ result.op.recheck # "none"
             /\ result.op.recheck = "stale" => Fetched
             /\ result.op.recheck = "fresh" => result.sent = <<>>
             /\ Fetched /\ Count(result.rcvd, 302) = 0
                => result.sent = <<HOUSES>>
             /\ Fetched /\ result.outcome = "returned"
                => last_update = result.at

\* a query made 121 s after the last fetch fetched once and reset the clock
C8_Witness ==
    /\ FinishedQuery /\ update_rate = DEFAULT_UPDATE_RATE
    /\ result.op.age0 = DEFAULT_UPDATE_RATE + 1
    /\ result.sent = <<HOUSES>>
    /\ result.outcome = "returned"
    /\ last_update = result.at

\* C9 as stated: with the update rate set to DISABLE_AUTO_UPDATE, no
\* non-forced call sends a fetch
C9_NeverFetchesUnforced ==
    FinishedQuery /\ update_rate = DISABLE_AUTO_UPDATE => ~Fetched

\* C9 as amended: with the update rate set to DISABLE_AUTO_UPDATE, a
\* non-forced call made once a snapshot is held sends nothing and returns,
\* however old the snapshot is; only a forced call, or a call made while no
\* snapshot is held, sends a fetch
C9_NoTimedRefresh ==
    /\ FinishedQuery /\ update_rate = DISABLE_AUTO_UPDATE /\ ~result.op.none0
       => result.sent = <<>> /\ result.outcome = "returned"
    /\ update_rate = DISABLE_AUTO_UPDATE
       /\ result.op.name = "get_thermostat_json" /\ Fetched
       => result.op.force \/ result.op.none0

\* with auto update disabled, a query made more than 120 s after the last
\* fetch returned without sending anything
C9_Witness ==
    /\ FinishedQuery /\ update_rate = DISABLE_AUTO_UPDATE
    /\ result.op.age0 > DEFAULT_UPDATE_RATE
    /\ result.sent = <<>>
    /\ result.outcome = "returned"

\* the call entered the staleness-checked entry point in an open window:
\* forced, or with no snapshot or a stale one
EnteredStale(o) ==
    \/ o.none0
    \/ update_rate # DISABLE_AUTO_UPDATE /\ o.age0 > update_rate

\* C10 as stated: of the callers that enter in one staleness window, every
\* one that finds the snapshot refreshed when it gets the mutex returns
\* without fetching, the host's refresh included
C10_OneFetchPerWindow ==
    /\ result.op.name = "get_thermostat_json"
    /\ result.op.auth0
    /\ EnteredStale(result.op)
    /\ result.op.recheck = "fresh"
    => ~Fetched

\* C10 as amended: fetches are made one at a time, by the holder of the
\* mutex; a non-forced caller that entered in a staleness window and finds
\* the snapshot refreshed when it gets the mutex returns that snapshot
\* without fetching, and a non-forced caller fetches only if the snapshot
\* is still missing or stale when it holds the mutex; a forced caller
\* fetches whatever it finds
C10_NonForcedFetchOnce ==
    /\ \A t \in Threads :
          pc[t] = "net" /\ op[t].name = "get_thermostat_json"
          => mutex = Holder(t)
    /\ Cardinality({t \in Threads : pc[t] = "net"
                       /\ op[t].name = "get_thermostat_json"}) <= 1
    /\ FinishedQuery /\ result.op.recheck = "fresh"
       => /\ result.sent = <<>>
          /\ result.outcome = "returned"
          /\ ~thermostat_json.none
          /\ result.value = IF result.op.id = ALL_IDS
                            THEN thermostat_json.items
                            ELSE thermostat_json.items[1]
    /\ FinishedQuery /\ Fetched => result.op.recheck = "stale"
    /\ result.op.name = "get_thermostat_json" /\ result.op.force
       /\ result.op.auth0
       => Fetched

\* a non-forced caller entered with a stale snapshot, waited for the mutex,
\* found the snapshot refreshed by another caller and returned it unfetched
C10_Witness ==
    /\ FinishedQuery
    /\ ~result.op.none0 /\ EnteredStale(result.op)
    /\ result.op.recheck = "fresh"
    /\ result.sent = <<>>
    /\ result.outcome = "returned"

\* caller t has a snapshot fetch in flight: its _get_thermostat_json waits
\* for the answer to GET /houses/{house_id} or to a request of the re-login
\* that GET triggered
FetchInFlight(t) ==
    /\ op[t].name = "get_thermostat_json"
    /\ pc[t] = "net"
    /\ \E i \in DOMAIN stack[t] : stack[t][i] = HOUSES

\* C11: at every moment at most one caller has a snapshot fetch in flight,
\* whatever mix of forced and non-forced calls the callers make.
C11_OneFetchInFlight ==
    Cardinality({t \in Threads : FetchInFlight(t)}) <= 1

\* one caller's fetch is in flight while another caller, forced, waits at
\* the with-statement
C11_Witness ==
    \E t, u \in Threads :
        /\ t # u
        /\ FetchInFlight(t)
        /\ pc[u] = "lock" /\ op[u].force

\* this step ends a fetch of some caller whose GET was answered 200, and
\* leaves a snapshot stamped with the present time
FetchSucceeds ==
    \E t \in Threads :
        /\ pc[t] = "net" /\ Top(stack[t]) = HOUSES
        /\ result'.caller = t
        /\ result'.rcvd[Len(result'.rcvd)] = 200
        /\ ~thermostat_json'.none
        /\ last_update' = now

\* what holds of the last-update time before and after every step
LastUpdateFollowsSnapshot ==
    /\ (last_update = NoTime) <=> thermostat_json.none
    /\ (last_update' = NoTime) <=> thermostat_json'.none
    /\ last_update' # last_update => FetchSucceeds
    /\ thermostat_json.none /\ ~thermostat_json'.none => FetchSucceeds
    /\ last_update' >= last_update
    /\ (get_last_update' = isoformat(DATETIME_MIN)) <=> thermostat_json'.none

C36_NoFetchBeforeLogin ==
    /\ mobile_id = None
       => /\ thermostat_json.none
          /\ \A t \in Threads : Count(sent[t], HOUSES) = 0
    /\ result.op.name = "get_thermostat_json" /\ ~result.op.auth0
       => /\ result.outcome = "returned"
          /\ result.value = None
          /\ result.sent = <<>>

\* update() was called before any login and returned None; there is still
\* no snapshot
C36_Witness ==
    /\ result.op.name = "get_thermostat_json"
    /\ result.op.force /\ ~result.op.auth0
    /\ result.outcome = "returned" /\ result.value = None
    /\ mobile_id = None /\ thermostat_json.none

(***************************************************************************)
(* Claims about the path accessors (checked under SpecLookup)              *)
(***************************************************************************)
\* o is a call of a path accessor or of a capability flag
IsLookup(o) == "query" \in DOMAIN o

\* the snapshot was fresh when o was called: there was one, and automatic
\* updates are off or its age was not above the update rate
FreshAtCall(o) ==
    /\ ~o.none0
    /\ update_rate = DISABLE_AUTO_UPDATE \/ o.age0 <= update_rate

\* C30: the path accessors (zone by id, settings entry by type, features
\* entry by name) send no request of their own: called while the snapshot
\* is fresh, an accessor or a capability flag never waits for the mutex or
\* the network, and ends having sent nothing
C30_FreshLookupsSendNothing ==
    /\ \A t \in Threads : IsLookup(op[t]) => ~FreshAtCall(op[t])
    /\ IsLookup(result.op) /\ FreshAtCall(result.op)
       => result.sent = <<>> /\ result.rcvd = <<>>

\* an accessor called on a snapshot exactly as old as the update rate
\* allows found its entry without sending anything
C30_Witness ==
    /\ IsLookup(result.op)
    /\ update_rate = DEFAULT_UPDATE_RATE
    /\ result.op.age0 = DEFAULT_UPDATE_RATE
    /\ result.op.query = "_get_zone_setting"
    /\ result.outcome = "returned"
    /\ result.sent = <<>>

\* the devices of the snapshot that a lookup with thermostat_id id is
\* handed: the one with that id, or the only one where the id is omitted
DevicesFor(id) ==
    LET items == thermostat_json.items
    IN  IF id = None
        THEN IF Len(items) = 1 THEN {items[1]} ELSE {}
        ELSE {items[i] : i \in {j \in DOMAIN items : items[j].id = id}}

\* a zone accessor has ended otherwise than by a failed fetch, called for
\* a device that is in the snapshot
FinishedZoneLookup ==
    /\ IsLookup(result.op)
    /\ result.op.query \in {"_get_zone_json", "_get_zone_setting",
                            "_get_zone_features"}
    /\ DevicesFor(result.op.tid) # {}
    /\ result.error \notin {ERR_TRANSPORT, ERR_LOGIN, ERR_EXHAUSTED,
                            ERR_NO_RESPONSE, ERR_EMPTY_JSON}

\* the entries of list whose field key has the value wanted
Entries(list, key, wanted) ==
    {list[i] : i \in {j \in DOMAIN list : list[j][key] = wanted}}

\* the call ended in the not-found error err, naming key
NotFound(err, key) ==
    /\ result.outcome = "raised"
    /\ result.error = err
    /\ result.value = key

\* the call returned an entry of the set hits
FoundIn(hits) ==
    /\ result.outcome = "returned"
    /\ result.value.value \in hits

\* C32: on a populated snapshot a zone lookup with a zone id the device
\* has not fails with a not-found error naming the id, and a settings or
\* features lookup with a type or name the zone has not fails with a
\* not-found error naming it; a lookup that returns returns an entry of
\* the requested identity
C32_LookupFindsOrNames ==
    FinishedZoneLookup
    => \A dev \in DevicesFor(result.op.tid) :
          LET o == result.op
              zones == Entries(dev.zones, "id", o.zid)
          IN  IF zones = {} THEN NotFound(ERR_INDEX, o.zid)
              ELSE IF o.query = "_get_zone_json" THEN FoundIn(zones)
              ELSE \E zone \in zones :
                      LET hits == IF o.query = "_get_zone_setting"
                                  THEN Entries(zone.settings, "type", o.key)
                                  ELSE Entries(zone.features, "name", o.key)
                      IN  IF hits = {} THEN NotFound(ERR_KEY, o.key)
                          ELSE FoundIn(hits)

\* a settings lookup by a type the zone has not ended in KeyError naming
\* the type, on a zone that has other settings
C32_Witness ==
    /\ FinishedZoneLookup
    /\ result.op.query = "_get_zone_setting"
    /\ result.op.zid = "Z1"
    /\ result.op.key = "thermostat_mode"
    /\ NotFound(ERR_KEY, "thermostat_mode")

\* the errors with which a fetch fails: from the transport, from the login
\* made for a 302, or for an empty JSON document
FetchErrors ==
    {ERR_TRANSPORT, ERR_EMPTY_JSON, ERR_LOGIN, ERR_EXHAUSTED, ERR_NO_RESPONSE}

\* this step ends the fetch of caller t in one of those errors
FetchFails(t) ==
    /\ FetchInFlight(t)
    /\ pc'[t] = "idle"
    /\ result'.caller = t
    /\ result'.outcome = "raised"
    /\ result'.error \in FetchErrors

\* a failed fetch leaves the snapshot and its time as they were and
\* releases the mutex; the mutex is held only while a fetch is in flight
FailedFetchKeepsSnapshot ==
    /\ \A t \in Threads :
          FetchFails(t)
          => /\ thermostat_json' = thermostat_json
             /\ last_update' = last_update
             /\ mutex' = None
    /\ mutex' # None
       => \E t \in Threads :
             /\ mutex' = Holder(t)
             /\ pc'[t] = "net"
             /\ \E i \in DOMAIN stack'[t] : stack'[t][i] = HOUSES

\* C35: a fetch that fails (an answer other than 200, an empty JSON
\* document, or a failed login made for a 302) leaves the snapshot and the
\* last-update time unchanged and releases the mutex, and the mutex is never
\* held except by a caller whose fetch is in flight, so that a later caller
\* gets the mutex and fetches again.
C35_FailedFetchKeepsSnapshot == [][FailedFetchKeepsSnapshot]_vars

\* a fetch made on a stale snapshot was answered 302 and the sign-in made for
\* it was refused: the fetch raised the login error, the snapshot is as old
\* as before and the mutex is free
C35_Witness ==
    /\ result.op.name = "get_thermostat_json"
    /\ result.sent = <<HOUSES, SIGN_IN>>
    /\ result.rcvd = <<302, 200>>
    /\ result.outcome = "raised" /\ result.error = ERR_LOGIN
    /\ last_update = 0 /\ now > DEFAULT_UPDATE_RATE
    /\ mutex = None

(***************************************************************************)
(* Claims about the control operations (checked under SpecControl)         *)
(***************************************************************************)
\* a control operation has just ended
FinishedControl == result.op.name \in ControlOps

\* the device and the zone operation o addressed, in snapshot json
Addressed(o, json) ==
    thermostat_index(json.items, o.tid) # 0
    /\ index_with_keyvalue(
          json.items[thermostat_index(json.items, o.tid)].zones,
          "id", o.zid) # 0
DevIn(o, json) == json.items[thermostat_index(json.items, o.tid)]
ZoneIn(o, json) ==
    find_dict_with_keyvalue_in_json(DevIn(o, json).zones, "id", o.zid)

\* the arguments of operation o reproduce what the snapshot held when it
\* was called
Reproduces(o) ==
    LET dev == DevIn(o, o.json0)
        zone == ZoneIn(o, o.json0)
    IN  /\ Addressed(o, o.json0)
        /\ CASE o.name = "set_fan_mode" ->
                    Lower(o.arg.fan_mode) = get_fan_mode(dev)
              [] o.name = "set_air_cleaner" ->
                    Lower(o.arg.air_cleaner_mode) = get_air_cleaner_mode(dev)
              [] o.name = "set_emergency_heat" ->
                    o.arg.emergency_heat_on =
                        find_dict_with_keyvalue_in_json(
                            dev.settings, "type", "emergency_heat_active")
                            .current_value
              [] o.name = "set_humidity_setpoints" ->
                    /\ has_dehumidify_support(dev)
                    /\ has_humidify_support(dev)
                    /\ o.arg.dehumidify_setpoint = get_dehumidify_setpoint(dev)
                    /\ o.arg.humidify_setpoint = get_humidify_setpoint(dev)
              [] o.name = "set_zone_mode" ->
                    o.arg.mode = get_zone_current_mode(zone)
              [] o.name = "set_zone_preset" ->
                    o.arg.preset = get_zone_preset(zone)
              [] o.name = "set_zone_heat_cool_temp" ->
                    /\ o.arg.heat_temperature = get_zone_heating_setpoint(zone)
                    /\ o.arg.cool_temperature = get_zone_cooling_setpoint(zone)
              [] o.name = "call_permanent_hold" ->
                    /\ is_zone_in_permanent_hold(zone)
                    /\ o.arg.heat_temperature = get_zone_heating_setpoint(zone)
                    /\ o.arg.cool_temperature = get_zone_cooling_setpoint(zone)
              [] OTHER -> FALSE

\* C4: a control operation whose arguments reproduce the values the fresh
\* snapshot holds sends no request.  (The claim as stated; set_fan_mode,
\* set_emergency_heat, set_humidity_setpoints and set_zone_mode post
\* without comparing.)
C4_NoRequestWhenUnchanged ==
    FinishedControl /\ Reproduces(result.op) => result.sent = <<>>

ValidationErrors == {ERR_KEY, ERR_ATTRIBUTE, ERR_VALUE}

\* C5: a control operation that ends in a validation error has sent no
\* POST.  (The claim as stated; call_permanent_hold and
\* NexiaZone.set_hvac_mode post the run mode before the setpoints, or the
\* mode, are validated.)
C5_NoPostBeforeValidationError ==
    FinishedControl /\ result.outcome = "raised"
    /\ result.error \in ValidationErrors
    => result.op.posted = <<>> /\ result.sent = <<>>

\* C6: after a control operation whose POSTs succeeded, every field of the
\* last result received is held with that value by the cached record the
\* operation addressed, by an explicit device id or by an omitted one on a
\* single-device account.  (The claim as stated; with the id omitted the
\* merge matches no device.)
C6_ResultMerged ==
    /\ FinishedControl /\ result.outcome = "returned"
    /\ result.op.replies # <<>>
    /\ Addressed(result.op, thermostat_json)
    => LET p == result.op.posted[Len(result.op.posted)]
           data == result.op.replies[Len(result.op.replies)]
           rec == IF p.level = "zone" THEN ZoneIn(result.op, thermostat_json)
                  ELSE DevIn(result.op, thermostat_json)
       IN  \A k \in DOMAIN data : k \in DOMAIN rec /\ rec[k] = data[k]

\* the heat and cool setpoints a result gives, as {heat, cool} or as the
\* zone's setpoints entry
GivesSetpoints(data) ==
    \/ {"heat", "cool"} \subseteq DOMAIN data
    \/ "setpoints" \in DOMAIN data
ResultHeat(data) ==
    IF "heat" \in DOMAIN data THEN data.heat ELSE data.setpoints.heat
ResultCool(data) ==
    IF "cool" \in DOMAIN data THEN data.cool ELSE data.setpoints.cool

\* C7: after a successful setpoints POST whose result gives heat h and
\* cool c, get_zone_heating_setpoint and get_zone_cooling_setpoint of the
\* same zone return h and c, and no GET was sent.  (The claim as stated;
\* the result is merged only for an explicit device id, and {heat, cool}
\* is merged beside the setpoints entry the getters read.)
C7_SetpointsReadBack ==
    /\ FinishedControl /\ result.outcome = "returned"
    /\ result.op.name = "set_zone_heat_cool_temp"
    /\ result.op.replies # <<>>
    /\ GivesSetpoints(result.op.replies[Len(result.op.replies)])
    /\ Addressed(result.op, thermostat_json)
    => LET data == result.op.replies[Len(result.op.replies)]
           zone == ZoneIn(result.op, thermostat_json)
       IN  /\ get_zone_heating_setpoint(zone) = ResultHeat(data)
           /\ get_zone_cooling_setpoint(zone) = ResultCool(data)
           /\ Count(result.sent, HOUSES) = 0

\* the setpoints requests a control operation in progress has posted
SetpointsPosted(t) ==
    IF op[t].name \in ControlOps
    THEN {op[t].posted[i] : i \in {j \in DOMAIN op[t].posted :
                                     op[t].posted[j].text = "setpoints"}}
    ELSE {}

\* a control operation handed a pair of setpoints to _set_setpoints, and so
\* to check_heat_cool_setpoints, and returned
ReturnedWithPair ==
    /\ FinishedControl /\ result.outcome = "returned"
    /\ result.op.heat # NoTemp /\ result.op.cool # NoTemp
    /\ Addressed(result.op, thermostat_json)

\* C12: every setpoints POST of a control operation carries a pair with
\* cool - heat >= deadband, and check_heat_cool_setpoints lets no pair
\* with cool - heat < deadband pass.  (The claim as stated; the check
\* compares rounded copies, call_permanent_hold posts the pair as given.)
C12_DeadbandKept ==
    /\ \A t \in Threads : \A p \in SetpointsPosted(t) :
          p.data.cool - p.data.heat
              >= get_deadband(DevIn(op[t], thermostat_json))
    /\ ReturnedWithPair
          => result.op.cool - result.op.heat
                >= get_deadband(DevIn(result.op, thermostat_json))

\* C13: every setpoints POST of set_zone_heat_cool_temp or
\* call_permanent_hold carries heat and cool within [setpoint_heat_min,
\* setpoint_cool_max], and validation lets no pair with a value outside
\* pass.  (The claim as stated; the check bounds heat from above and cool
\* from below only.)
C13_WithinLimits ==
    LET within(x, dev) == /\ get_setpoint_heat_min(dev) <= x
                          /\ x <= get_setpoint_cool_max(dev)
    IN  /\ \A t \in Threads : \A p \in SetpointsPosted(t) :
              /\ within(p.data.heat, DevIn(op[t], thermostat_json))
              /\ within(p.data.cool, DevIn(op[t], thermostat_json))
        /\ ReturnedWithPair
              => /\ within(result.op.heat, DevIn(result.op, thermostat_json))
                 /\ within(result.op.cool, DevIn(result.op, thermostat_json))

\* a control operation called check_heat_cool_setpoints with both
\* temperatures: it handed a pair to _set_setpoints on a device that is in
\* the snapshot, and no request of its own failed
CheckedPair ==
    /\ FinishedControl
    /\ result.op.heat # NoTemp /\ result.op.cool # NoTemp
    /\ Addressed(result.op, result.op.json0)
    /\ result.error \notin {ERR_TRANSPORT, ERR_LOGIN, ERR_EXHAUSTED,
                            ERR_NO_RESPONSE}

\* C22: check_heat_cool_setpoints called with both heat and cool raises if
\* and only if heat >= cool, or cool - heat < deadband, or heat > the
\* maximum the device reports, or cool < the minimum it reports.  (The
\* claim as stated; the check compares the rounded temperatures, so that a
\* pair less than the deadband apart passes when its rounded values are
\* the deadband apart.)
C22_CheckRaisesIff ==
    CheckedPair
    => LET dev == DevIn(result.op, result.op.json0)
           heat == result.op.heat
           cool == result.op.cool
       IN  (result.outcome = "raised" /\ result.error = ERR_ATTRIBUTE)
           <=> \/ heat >= cool
               \/ cool - heat < dev.features[1].setpoint_delta
               \/ heat > dev.features[1].setpoint_cool_max
               \/ cool < dev.features[1].setpoint_heat_min

\* C23: every heat/cool pair that passes validation and is posted
\* satisfies heat < cool - deadband, strictly.  (The claim as stated; the
\* check lets a pair exactly the deadband apart pass.)
C23_StrictDeadband ==
    \A t \in Threads : \A p \in SetpointsPosted(t) :
        p.data.heat < p.data.cool
                        - DevIn(op[t], op[t].json0).features[1].setpoint_delta

\* set_zone_heat_cool_temp was called with set_temperature alone, for a
\* zone that is in the snapshot, and has ended
FinishedUnified ==
    /\ FinishedControl
    /\ result.op.name = "set_zone_heat_cool_temp"
    /\ result.op.arg.set_temperature # NoTemp
    /\ Addressed(result.op, result.op.json0)

\* the whole number of degrees nearest to temperature t, the even one of
\* the two where t lies half-way
NearestDegree(t) ==
    CHOOSE r \in {Deg(n) : n \in 0..120} :
        LET dist == IF t >= r THEN t - r ELSE r - t
        IN  \/ 2 * dist < Deg(1)
            \/ 2 * dist = Deg(1) /\ (r \div Deg(1)) % 2 = 0

\* the zone mode the snapshot held when operation o was called
ModeAtCall(o) == ZoneIn(o, o.json0).settings[2].current_value

\* C24: set_zone_heat_cool_temp with a single set_temperature t resolves,
\* in COOL mode, to cool = round(t) and heat = min(current heat, cool -
\* deadband), and in HEAT mode to heat = round(t) and cool = max(current
\* cool, heat + deadband): the inactive side moves only when the deadband
\* needs it to; and a setpoints POST of the call carries that pair
C24_ActiveSideTarget ==
    /\ FinishedUnified /\ ModeAtCall(result.op) \in {"COOL", "HEAT"}
       => LET o == result.op
              zone == ZoneIn(o, o.json0)
              deadband == DevIn(o, o.json0).features[1].setpoint_delta
              t == NearestDegree(o.arg.set_temperature)
          IN  IF ModeAtCall(o) = "COOL"
              THEN /\ o.cool = t
                   /\ o.heat = IF zone.setpoints.heat <= t - deadband
                               THEN zone.setpoints.heat ELSE t - deadband
              ELSE /\ o.heat = t
                   /\ o.cool = IF zone.setpoints.cool >= t + deadband
                               THEN zone.setpoints.cool ELSE t + deadband
    /\ \A t \in Threads : \A p \in SetpointsPosted(t) :
          op[t].name = "set_zone_heat_cool_temp"
          => p.data = [heat |-> op[t].heat, cool |-> op[t].cool]

\* a call with set_temperature alone in HEAT mode left the cooling setpoint
\* where it was and posted the pair, and the call returned
C24_Witness ==
    /\ FinishedUnified /\ ModeAtCall(result.op) = "HEAT"
    /\ result.outcome = "returned"
    /\ result.op.arg.set_temperature = Deg(66)
    /\ result.op.cool = Deg(72)
    /\ Len(result.op.posted) = 1
    /\ result.op.posted[1].data = [heat |-> Deg(66), cool |-> Deg(72)]

\* set_zone_heat_cool_temp was called with set_temperature alone for a
\* zone whose mode is neither COOL nor HEAT, and has ended
FinishedSplit ==
    FinishedUnified /\ ModeAtCall(result.op) \notin {"COOL", "HEAT"}

\* the deadband operation o worked with, in whole degrees
DeadbandDegrees(o) ==
    DevIn(o, o.json0).features[1].setpoint_delta \div Deg(1)

\* C25: in a mode that is neither COOL nor HEAT, set_zone_heat_cool_temp
\* with a single set_temperature t resolves to cool = round(t) +
\* ceil(deadband / 2) and heat = round(t) - floor(deadband / 2).  (The
\* claim as stated; the code takes the ceiling on both sides.)
C25_CeilingAndFloor ==
    FinishedSplit
    => LET o == result.op
           t == NearestDegree(o.arg.set_temperature)
       IN  /\ o.cool = t + Deg((DeadbandDegrees(o) + 1) \div 2)
           /\ o.heat = t - Deg(DeadbandDegrees(o) \div 2)

\* C26 as stated: the split yields a pair with cool - heat >= d,
\* t - ceil(d/2) <= heat <= t - floor(d/2) and
\* t + floor(d/2) <= cool <= t + ceil(d/2), t being the temperature given
C26_SplitAroundGiven ==
    FinishedSplit
    => LET o == result.op
           t == o.arg.set_temperature
           lo == Deg(DeadbandDegrees(o) \div 2)
           hi == Deg((DeadbandDegrees(o) + 1) \div 2)
       IN  /\ o.cool - o.heat >= Deg(DeadbandDegrees(o))
           /\ t - hi <= o.heat /\ o.heat <= t - lo
           /\ t + lo <= o.cool /\ o.cool <= t + hi

\* C26 as amended: the same bounds hold around round(t), the temperature
\* given rounded as the device's unit asks; for deadband 3 and t = 70 the
\* pair has heat 68 or 69 and cool 71 or 72
C26_SplitAroundRounded ==
    FinishedSplit
    => LET o == result.op
           t == NearestDegree(o.arg.set_temperature)
           lo == Deg(DeadbandDegrees(o) \div 2)
           hi == Deg((DeadbandDegrees(o) + 1) \div 2)
       IN  /\ o.cool - o.heat >= Deg(DeadbandDegrees(o))
           /\ t - hi <= o.heat /\ o.heat <= t - lo
           /\ t + lo <= o.cool /\ o.cool <= t + hi
           /\ DeadbandDegrees(o) = 3 /\ o.arg.set_temperature = Deg(70)
              => /\ o.heat \in {Deg(68), Deg(69)}
                 /\ o.cool \in {Deg(71), Deg(72)}

\* a call with set_temperature 74.25 alone, in AUTO mode on a device with
\* deadband 3, resolved to a pair around 74 and posted it
C26_Witness ==
    /\ FinishedSplit
    /\ result.outcome = "returned"
    /\ DeadbandDegrees(result.op) = 3
    /\ result.op.arg.set_temperature = Deg(74) + 1
    /\ result.op.heat = Deg(72) /\ result.op.cool = Deg(76)
    /\ Len(result.op.posted) = 1
    /\ result.op.posted[1].text = "setpoints"

\* the requests a set_humidity_setpoints in progress has posted
HumidityPosted(t) ==
    IF op[t].name = "set_humidity_setpoints"
    THEN {op[t].posted[i] : i \in DOMAIN op[t].posted}
    ELSE {}

\* the humidify setpoint set_humidity_setpoints(arg) compares on device dev:
\* the one given, or the cached one, rounded to 5 percent
humidify_compared(arg, dev) ==
    round_half_even(IF arg.humidify_setpoint = NoTemp
                    THEN get_humidify_setpoint(dev)
                    ELSE arg.humidify_setpoint, 5)

\* C14: for every combination of capabilities, set_humidity_setpoints
\* either raises without a POST or posts a value within [0.35, 0.65], with
\* humidify <= dehumidify where both are supported; humidify 0.70 fails,
\* and humidify 0.40 with dehumidify 0.35 fails.  (The claim as stated; on
\* a device that only humidifies the call posts dehumidify = 0.)
C14_HumidityPostInRange ==
    /\ \A t \in Threads : \A p \in HumidityPosted(t) :
          LET dev == DevIn(op[t], thermostat_json)
          IN  /\ HUMIDITY_MIN <= p.data.value
              /\ p.data.value <= HUMIDITY_MAX
              /\ has_humidify_support(dev) /\ has_dehumidify_support(dev)
                    => humidify_compared(op[t].arg, dev) <= p.data.value
    /\ FinishedControl /\ result.op.name = "set_humidity_setpoints"
          => /\ /\ result.outcome = "raised"
                /\ result.error \in {ERR_TYPE, ERR_SYSTEM, ERR_VALUE,
                                     ERR_UNSUPPORTED}
                => result.sent = <<>>
             /\ \/ result.op.arg.humidify_setpoint = 70
                \/ /\ result.op.arg.humidify_setpoint = 40
                   /\ result.op.arg.dehumidify_setpoint = 35
                => result.outcome = "raised" /\ result.sent = <<>>

\* the device record dev has no settings entry of the given type
LacksSetting(dev, type) ==
    \A i \in DOMAIN dev.settings : dev.settings[i].type # type

\* set_humidity_setpoints was asked for a setpoint the addressed device has
\* no support for
UnsupportedHumidityRequest(o) ==
    /\ o.name = "set_humidity_setpoints"
    /\ thermostat_index(o.json0.items, o.tid) # 0
    /\ \/ /\ o.arg.humidify_setpoint # NoTemp
          /\ LacksSetting(DevIn(o, o.json0), "humidify")
       \/ /\ o.arg.dehumidify_setpoint # NoTemp
          /\ LacksSetting(DevIn(o, o.json0), "dehumidify")

\* C15: a humidify setpoint requested of a device without humidify
\* support, or a dehumidify setpoint requested of a device without
\* dehumidify support, raises and posts nothing, whichever other setpoint
\* comes with it; with the device named, the error is the SystemError of
\* the missing capability.
C15_UnsupportedSetpointRaises ==
    FinishedControl /\ UnsupportedHumidityRequest(result.op)
    => /\ result.outcome = "raised"
       /\ result.sent = <<>> /\ result.op.posted = <<>>
       /\ result.op.tid # None => result.error = ERR_SYSTEM

\* a humidify setpoint was requested, together with a valid dehumidify
\* setpoint, of a device that only dehumidifies
C15_Witness ==
    /\ FinishedControl /\ UnsupportedHumidityRequest(result.op)
    /\ result.op.tid # None
    /\ result.op.arg.humidify_setpoint = 40
    /\ result.op.arg.dehumidify_setpoint = 50
    /\ LacksSetting(DevIn(result.op, result.op.json0), "humidify")
    /\ result.error = ERR_SYSTEM

\* a set_humidity_setpoints call has ended that was given a setpoint and
\* did not end in one of its validation errors
PassedHumidityValidation ==
    /\ FinishedControl
    /\ result.op.name = "set_humidity_setpoints"
    /\ \/ result.op.arg.dehumidify_setpoint # NoTemp
       \/ result.op.arg.humidify_setpoint # NoTemp
    /\ result.error \notin {ERR_TYPE, ERR_SYSTEM, ERR_VALUE, ERR_UNSUPPORTED}

\* the multiple of 5 percent nearest to x percent
NearestFive(x) ==
    CHOOSE r \in {5 * n : n \in 0..20} :
        2 * (IF x >= r THEN x - r ELSE r - x) < 5

\* C27: a set_humidity_setpoints call that passes validation makes exactly
\* one POST, to the dehumidify endpoint of the device, carrying only the
\* dehumidify value (the one requested, or the current one when only
\* humidify was requested) rounded to the nearest 0.05; a call with
\* neither setpoint returns without any request.  One POST is one call of
\* _post_url: the requests on the wire are that one unless a 302 makes the
\* transport send it again.  (The claim as stated; a device without
\* dehumidify support has no current value, and the POST carries 0.)
C27_OneDehumidifyPost ==
    /\ PassedHumidityValidation
       => LET o == result.op
              dev == DevIn(o, o.json0)
              given == o.arg.dehumidify_setpoint
              url == "/xxl_thermostats/" \o o.tid \o "/dehumidify"
          IN  /\ Len(o.posted) = 1
              /\ o.posted[1].url = url
              /\ \A i \in DOMAIN result.sent :
                    result.sent[i] \in {url, SIGN_IN, SESSION}
              /\ Count(result.rcvd, 302) = 0 => result.sent = <<url>>
              /\ DOMAIN o.posted[1].data = {"value"}
              /\ IF given # NoTemp
                 THEN o.posted[1].data.value = NearestFive(given)
                 ELSE \E i \in DOMAIN dev.settings :
                         /\ dev.settings[i].type = "dehumidify"
                         /\ o.posted[1].data.value =
                               NearestFive(dev.settings[i].current_value)
    /\ /\ FinishedControl
       /\ result.op.name = "set_humidity_setpoints"
       /\ result.op.arg.dehumidify_setpoint = NoTemp
       /\ result.op.arg.humidify_setpoint = NoTemp
       => result.outcome = "returned" /\ result.sent = <<>>

\* set_zone_preset has ended, called for a zone that is in the snapshot
\* with a label other than the one of the zone's current preset
FinishedPresetChange ==
    /\ FinishedControl
    /\ result.op.name = "set_zone_preset"
    /\ Addressed(result.op, result.op.json0)
    /\ LET setting == ZoneIn(result.op, result.op.json0).settings[3]
       IN  setting.labels[setting.current_value + 1] # result.op.arg.preset

\* C28: set_zone_preset(label) with a label other than the current one
\* posts the value of the first of the zone's preset options that has the
\* label, and value 0 when none has it; an unmatched label raises nothing
\* (the call raises only what its request raises)
C28_PresetValuePosted ==
    FinishedPresetChange
    => LET o == result.op
           options == ZoneIn(o, o.json0).settings[3].options
           before(i) == {j \in 1..(i - 1) : options[j].label = o.arg.preset}
           first == {i \in DOMAIN options :
                        options[i].label = o.arg.preset /\ before(i) = {}}
       IN  /\ Len(o.posted) = 1
           /\ o.posted[1].url = "/xxl_zones/" \o o.zid \o "/preset_selected"
           /\ DOMAIN o.posted[1].data = {"value"}
           /\ \A i \in first : o.posted[1].data.value = options[i].value
           /\ first = {} => o.posted[1].data.value = 0
           /\ result.outcome = "raised"
              => result.error \in {ERR_TRANSPORT, ERR_LOGIN, ERR_EXHAUSTED,
                                   ERR_NO_RESPONSE}

\* a label that stands in two options was posted as the value of the first
\* of them, and the call returned
C28_Witness ==
    /\ FinishedPresetChange
    /\ result.outcome = "returned"
    /\ result.op.arg.preset = "Away"
    /\ result.op.posted[1].data.value = 2

\* record new is record old with at most the keys of data changed
OnlyKeysOf(data, old, new) ==
    \A k \in DOMAIN old \ DOMAIN data : k \in DOMAIN new /\ new[k] = old[k]

\* list new is list old with at most the keys of data changed, in the
\* entries whose id is id
OnlyEntry(id, data, old, new) ==
    /\ DOMAIN new = DOMAIN old
    /\ \A i \in DOMAIN old :
          IF old[i].id = id THEN OnlyKeysOf(data, old[i], new[i])
          ELSE new[i] = old[i]

\* a step of a control operation keeps the snapshot's frame: it sends no
\* GET and leaves last_update alone; the call itself leaves the snapshot
\* alone; the answer to request p, carrying result data, changes at most
\* the keys of data in the device (or, below it, the zone) that p names,
\* and nothing where there is no snapshot
KeepsFrame ==
    /\ last_update' = last_update
    /\ Count(sent'[1], HOUSES) = 0 /\ Count(result'.sent, HOUSES) = 0
    /\ thermostat_json'.none = thermostat_json.none
    /\ pc[1] = "idle" \/ thermostat_json.none
       => thermostat_json' = thermostat_json
    /\ pc[1] # "idle" /\ ~thermostat_json.none
       => LET after == IF pc'[1] = "idle" THEN result'.op ELSE op'[1]
              p == op[1].posted[Len(op[1].posted)]
          IN  IF Len(after.replies) = Len(op[1].replies)
              THEN thermostat_json' = thermostat_json
              ELSE LET data == after.replies[Len(after.replies)]
                       old == thermostat_json.items
                       new == thermostat_json'.items
                   IN  IF p.level = "thermostat"
                       THEN OnlyEntry(p.tid, data, old, new)
                       ELSE /\ OnlyEntry(p.tid, [zones |-> <<>>], old, new)
                            /\ \A i \in DOMAIN old :
                                  OnlyEntry(p.zid, data, old[i].zones,
                                            new[i].zones)

FinishedHold == FinishedControl /\ result.op.name = "call_permanent_hold"

\* the arguments of o give neither temperature, or exactly one
NeitherGiven(o) ==
    o.arg.heat_temperature = NoTemp /\ o.arg.cool_temperature = NoTemp
OneGiven(o) ==
    (o.arg.heat_temperature = NoTemp) # (o.arg.cool_temperature = NoTemp)

\* the errors a request raises
TransportErrors == {ERR_TRANSPORT, ERR_LOGIN, ERR_EXHAUSTED, ERR_NO_RESPONSE}

\* the texts of the requests operation o posted, in order
PostedTexts(o) == [i \in DOMAIN o.posted |-> o.posted[i].text]

\* C16: call_permanent_hold with neither temperature holds the zone at the
\* setpoints the cache held when it was called: it posts the permanent
\* hold unless the zone is held already, posts no setpoints, and raises
\* only what a request raises; with exactly one temperature it raises
\* AttributeError and sends nothing.
C16_HoldBothOrNeither ==
    /\ FinishedHold /\ NeitherGiven(result.op)
        /\ Addressed(result.op, result.op.json0)
        => LET zone == ZoneIn(result.op, result.op.json0)
           IN  /\ result.op.heat = get_zone_heating_setpoint(zone)
               /\ result.op.cool = get_zone_cooling_setpoint(zone)
               /\ PostedTexts(result.op) \in
                     {IF is_zone_in_permanent_hold(zone) THEN <<>>
                      ELSE <<"run_mode">>}
               /\ \A i \in DOMAIN result.op.posted :
                     result.op.posted[i].data = [value |-> HOLD_PERMANENT]
               /\ result.outcome = "raised"
                     => result.error \in TransportErrors
    /\ FinishedHold /\ OneGiven(result.op)
        => /\ result.outcome = "raised" /\ result.error = ERR_ATTRIBUTE
           /\ result.sent = <<>> /\ result.op.posted = <<>>

\* a hold without temperatures, of a zone that followed its schedule,
\* returned after posting the permanent hold
C16_Witness ==
    /\ FinishedHold /\ NeitherGiven(result.op)
    /\ Addressed(result.op, result.op.json0)
    /\ ~is_zone_in_permanent_hold(ZoneIn(result.op, result.op.json0))
    /\ result.outcome = "returned"
    /\ PostedTexts(result.op) = <<"run_mode">>

\* sequence a is the beginning of sequence b
IsPrefix(a, b) == Len(a) <= Len(b) /\ a = SubSeq(b, 1, Len(a))

\* the requests NexiaZone.set_hvac_mode(hvac_mode) is to post, in order, on
\* a zone as the snapshot json0 held it
HvacPlan(o) ==
    IF o.arg.hvac_mode = "auto" THEN <<"return_to_schedule", "zone_mode">>
    ELSE IF is_zone_in_permanent_hold(ZoneIn(o, o.json0)) THEN <<"zone_mode">>
    ELSE <<"run_mode", "zone_mode">>

\* C17: NexiaZone.set_hvac_mode("auto") posts return_to_schedule and then
\* zone_mode; for every other mode the permanent hold (the run_mode POST,
\* unless the zone is held already) comes before the zone_mode POST; the
\* zone_mode POST is the last request of an operation that returns, and
\* an operation that ends early has posted a beginning of that order.
C17_HvacModeOrder ==
    FinishedControl /\ result.op.name = "set_hvac_mode"
    => /\ IsPrefix(PostedTexts(result.op), HvacPlan(result.op))
       /\ result.outcome = "returned"
            => /\ PostedTexts(result.op) = HvacPlan(result.op)
               /\ result.sent[Len(result.sent)]
                     = get_zone_post_url("zone_mode", result.op.zid)
               /\ result.op.posted[Len(result.op.posted)].data.value
                     \in OPERATION_MODES

\* set_hvac_mode("cool") on a zone that followed its schedule returned
\* after the hold and the mode were posted
C17_Witness ==
    /\ FinishedControl /\ result.op.name = "set_hvac_mode"
    /\ result.op.arg.hvac_mode = "cool"
    /\ result.outcome = "returned"
    /\ PostedTexts(result.op) = <<"run_mode", "zone_mode">>

(***************************************************************************)
(* Claims about the queries (checked under SpecQuery)                      *)
(***************************************************************************)
\* the query that ended named a device of the snapshot
QueriedDevice ==
    thermostat_index(thermostat_json.items, result.op.tid) # 0

\* the device record dev has no features entry of the given name
LacksFeature(dev, name) ==
    \A i \in DOMAIN dev.features : dev.features[i].name # name

\* the device record dev does not report key, or reports it as false
LacksKey(dev, key, false) == key \notin DOMAIN dev \/ dev[key] = false

\* the device record dev lacks the capability the getter name depends on
LacksCapability(dev, name) ==
    CASE name = "is_emergency_heat_active" ->
            LacksKey(dev, "emergency_heat_supported", FALSE)
      [] name = "get_outdoor_temperature" ->
            LacksKey(dev, "has_outdoor_temperature", FALSE)
      [] name = "get_relative_humidity" ->
            LacksKey(dev, "indoor_humidity", "")
      [] name \in {"get_current_compressor_speed",
                   "get_requested_compressor_speed"} ->
            LacksFeature(dev, "thermostat_compressor_speed")
      [] name \in {"get_fan_speed_setpoint",
                   "get_variable_fan_speed_limits"} ->
            LacksSetting(dev, "fan_speed")
      [] name = "get_dehumidify_setpoint" -> LacksSetting(dev, "dehumidify")
      [] OTHER -> LacksSetting(dev, "humidify")

\* C18: every getter that depends on an optional capability raises a
\* capability-unsupported error when the device lacks the capability, and
\* returns no default.  (The claim as stated; the compressor speed getters
\* return 0.)
C18_UnsupportedValueRaises ==
    /\ result.op.name \in CapabilityValues
    /\ QueriedDevice
    /\ LacksCapability(DevIn(result.op, thermostat_json), result.op.name)
    => /\ result.outcome = "raised"
       /\ result.error \in {ERR_UNSUPPORTED, ERR_ATTRIBUTE}

\* C19: every capability flag returns, and returns a falsy value where no
\* device is found, for any populated snapshot and any thermostat_id
\* argument.  (The claim as stated; with the id omitted on an account that
\* has not exactly one device the IndexError is not caught.)
C19_FlagsNeverRaise ==
    result.op.name \in CapabilityFlags
    => /\ result.outcome = "returned"
       /\ ~QueriedDevice => ~result.value.truthy

\* the ids of the devices of the snapshot, in order
KnownIds == [i \in DOMAIN thermostat_json.items |-> thermostat_json.items[i].id]

\* C20: _get_thermostat_json on a populated snapshot: ALL_IDS gives the
\* whole device sequence; an id gives the device of that id, or fails with
\* a KeyError listing the known ids; an omitted id gives the single device
\* if there is exactly one, and fails with the IndexError of an ambiguous
\* selection for any other number of devices.
C20_SnapshotSelection ==
    result.op.name = "get_thermostat_json" /\ ~thermostat_json.none
    => LET items == thermostat_json.items
           id == result.op.id
           hits == {i \in DOMAIN items : items[i].id = id}
       IN  CASE id = ALL_IDS ->
                   result.outcome = "returned" /\ result.value = items
             [] id = None ->
                   IF Len(items) = 1
                   THEN result.outcome = "returned" /\ result.value = items[1]
                   ELSE result.outcome = "raised" /\ result.error = ERR_INDEX
             [] OTHER ->
                   IF hits # {}
                   THEN /\ result.outcome = "returned"
                        /\ \E i \in hits : result.value = items[i]
                   ELSE /\ result.outcome = "raised"
                        /\ result.error = ERR_KEY
                        /\ result.value = KnownIds

\* an id no device has was asked for on an account with two devices
C20_Witness ==
    /\ result.op.name = "get_thermostat_json"
    /\ Len(thermostat_json.items) = 2
    /\ result.op.id = "T9"
    /\ result.error = ERR_KEY /\ result.value = KnownIds


(***************************************************************************)
(* Further claims about the control operations (checked under SpecControl) *)
(***************************************************************************)
\* the caller's control operation has its own POST in flight (not a
\* sign-in of the transport's re-login)
PostInFlight ==
    /\ pc[1] = "net"
    /\ op[1].name \in ControlOps
    /\ Top(stack[1]) = op[1].posted[Len(op[1].posted)].url

\* the status the caller receives in this step
StatusReceived ==
    IF pc'[1] = "idle" THEN result'.rcvd[Len(result'.rcvd)]
    ELSE rcvd'[1][Len(rcvd'[1])]

\* the step in which a control operation's POST is answered with a status
\* that is neither 200 nor the 302 of a redirect ends the operation: the
\* transport's error is raised, nothing more is sent, the snapshot is as
\* it was
FailedPostEndsCall ==
    PostInFlight /\ StatusReceived \notin {200, 302}
    => /\ pc'[1] = "idle"
       /\ result'.outcome = "raised"
       /\ result'.error = ERR_TRANSPORT
       /\ result'.sent = sent[1]
       /\ thermostat_json' = thermostat_json

\* C31: when the POST of a control operation fails with a transport error,
\* the error reaches the caller unchanged, the operation sends no further
\* request, and the snapshot is left exactly as it was before the failing
\* POST
C31_FailedPostLeavesSnapshot == [][FailedPostEndsCall]_vars

\* the second POST of an operation was answered 500: the operation ended
\* in the transport's error, and the snapshot holds the result of the
\* first POST and nothing else
C31_Witness ==
    /\ FinishedControl
    /\ result.outcome = "raised" /\ result.error = ERR_TRANSPORT
    /\ result.rcvd = <<200, 500>>
    /\ Len(result.op.posted) = 2 /\ Len(result.op.replies) = 1
    /\ thermostat_json # result.op.json0


(***************************************************************************)
(* Claims about a control operation beside a refresh (checked under        *)
(* SpecRace)                                                               *)
(***************************************************************************)
\* C34: a confirmed control result is not lost to a concurrent refresh: once
\* the control operation and the refresh have both ended, the cached devices
\* show the command the server applied and confirmed.  Only the client's own
\* commands change the server's devices here, so the confirmed result and
\* every state fetched after it are the server's devices as they are now;
\* anything else in the cache is data older than the POST.  (The claim as
\* stated; the merge is made outside the mutex, and a refresh whose GET the
\* server read before the command stores the older devices over the merge.)
C34_ConfirmedResultKept ==
    /\ pc[1] = "idle" /\ pc[2] = "idle"
    /\ server.applied # <<>>
    => thermostat_json.items = server.items


\* a finished set_zone_heat_cool_temp that was given one side of the pair
\* and no set_temperature, on a device and zone the snapshot holds
FinishedOneSided ==
    /\ FinishedControl
    /\ result.op.name = "set_zone_heat_cool_temp"
    /\ result.op.arg.set_temperature = NoTemp
    /\ (result.op.arg.heat_temperature = NoTemp)
          # (result.op.arg.cool_temperature = NoTemp)
    /\ Addressed(result.op, result.op.json0)

FragmentsReturned ==
    \A i \in DOMAIN result.op.replies :
        \/ result.op.posted[i].text = "return_to_schedule"
        \/ result.op.replies[i] # result.op.posted[i].data

\* C37: after NexiaZone.set_hvac_mode(m) has returned, for m one of off,
\* auto, heat_cool, heat and cool, with the server returning the resulting
\* zone fragment for each command, NexiaZone.mode read from the cache is m.
C37_ModeReadsBack ==
    /\ FinishedControl
    /\ result.op.name = "set_hvac_mode"
    /\ result.outcome = "returned"
    /\ result.op.tid # None
    /\ FragmentsReturned
    => /\ Addressed(result.op, thermostat_json)
       /\ NexiaZone_mode(ZoneIn(result.op, thermostat_json))
             = result.op.arg.hvac_mode

\* set_hvac_mode("heat_cool") on a zone that ran its schedule has posted the
\* permanent hold and the mode, and the entity reads heat_cool
C37_Witness ==
    /\ FinishedControl
    /\ result.op.name = "set_hvac_mode"
    /\ result.op.arg.hvac_mode = "heat_cool"
    /\ result.outcome = "returned"
    /\ result.op.tid # None
    /\ FragmentsReturned
    /\ PostedTexts(result.op) = <<"run_mode", "zone_mode">>
    /\ NexiaZone_mode(ZoneIn(result.op, thermostat_json)) = "heat_cool"


(***************************************************************************)
(* Claims about the zone entity (checked under SpecEntity)                 *)
(***************************************************************************)
\* a set_temperature call on the entity has ended
FinishedSetTemperature ==
    /\ result.op.name = "set_temperature"
    /\ Addressed(result.op, result.op.json0)

\* C40: NexiaZone.set_temperature with a low and a high target of which at
\* least one differs from the zone's setpoints passes to
\* set_zone_heat_cool_temp a pair with high - low >= deadband, low <= max -
\* deadband and high >= min + deadband; and a call that gives only one of
\* low and high does not raise in the entity but reaches
\* set_zone_heat_cool_temp.  (The claim as stated; with one of them missing
\* the entity subtracts with None as soon as the other one differs from the
\* zone's setpoint.)
C40_PairPassedOn ==
    FinishedSetTemperature
    => LET o == result.op
           a == o.arg
           dev == DevIn(o, o.json0)
           zone == ZoneIn(o, o.json0)
           deadband == dev.features[1].setpoint_delta
           min_temp == dev.features[1].setpoint_heat_min
           max_temp == dev.features[1].setpoint_cool_max
       IN  /\ /\ a.low # NoTemp /\ a.high # NoTemp
              /\ a.low # zone.setpoints.heat \/ a.high # zone.setpoints.cool
              => /\ a.passed
                 /\ a.cool_temperature - a.heat_temperature >= deadband
                 /\ a.heat_temperature <= max_temp - deadband
                 /\ a.cool_temperature >= min_temp + deadband
           /\ (a.low = NoTemp) # (a.high = NoTemp) => a.passed

\* the part of C40 that is about pairs: both targets given
C40_PairsOnly ==
    FinishedSetTemperature
    /\ result.op.arg.low # NoTemp /\ result.op.arg.high # NoTemp
    => C40_PairPassedOn

=============================================================================
